---- MODULE Spec2Model ----
(***************************************************************************)
(* A model of score-k8s: the generate and init commands of src/main.go and *)
(* the command provisioner of                                              *)
(* src/internal/provisioners/cmdprov/commandprov.go.                       *)
(*                                                                         *)
(* Files are sequences of tokens (the model's bytes).  A path is a         *)
(* sequence of character codes, so that slices.Sort's byte-wise order is   *)
(* computed and not assumed.                                               *)
(***************************************************************************)
EXTENDS Integers, Sequences, FiniteSets, TLC

VARIABLES
    \* ---- generate: control
    pc, result, runs,
    \* ---- generate: the filesystem and standard output
    stateFile, stateTmp, outFile, outTmp, stdout,
    \* ---- generate: the command line
    argv, flags,
    \* ---- generate: locals of RunE
    state, args, idx, workload, out, mi,
    \* ---- generate: history (what the run has done so far)
    start, loaded, readLog, mergeLog, provRuns, renamed, written, crashAt,
    \* ---- init: control, its two other files, history
    ipc, iresult, iruns, provFile, scoreFile, istart, ifirst, icreated,
    \* ---- the override stage of one input file
    opc, oresult, rawWorkload, ovFileDoc, ovEntries, oi, applied, lastOp, fileMerged,
    \* ---- Provisioner.Provision
    ppc, presult, pArgs, pInput, largs, pi, started, execArgs,
    exitStatus, outputBuffer, poutput,
    \* ---- Provisioner.Match
    mpc, mP, mUid, mret,
    \* ---- decodeBinary: the URI and what it was written from, the environment,
    \* ---- the locals, the return values
    bpc, bUri, bHost, bSegs, bCwd, bHome, bBinDir, bParts, pathParts, bret, berr,
    \* ---- Parse: the document and what its uri was written from, the
    \* ---- descriptor, the return values
    kpc, raw, rawUri, kp, kret, kerr,
    \* ---- cancellation of a provisioning call: the caller and its context, the
    \* ---- subprocess, the position of Provision, the calls so far
    caller, ctxDone, cancelAsked, cancelAt, subproc, cpc, ccalls,
    \* ---- repeated Provision calls on one descriptor
    pcalls, parsedArgs, renderLog

ctlVars == <<pc, result, runs>>
fsVars == <<stateFile, stateTmp, outFile, outTmp, stdout>>
cliVars == <<argv, flags>>
memVars == <<state, args, idx, workload, out, mi>>
histVars == <<start, loaded, readLog, mergeLog, provRuns, renamed, written, crashAt>>
genVars == <<ctlVars, fsVars, cliVars, memVars, histVars>>

initVars == <<ipc, iresult, iruns, provFile, scoreFile, istart, ifirst, icreated>>
ovVars == <<opc, oresult, rawWorkload, ovFileDoc, ovEntries, oi, applied, lastOp, fileMerged>>
provVars ==
    <<ppc, presult, pArgs, pInput, largs, pi, started, execArgs, exitStatus, outputBuffer,
      poutput, pcalls, parsedArgs, renderLog>>

matchVars == <<mpc, mP, mUid, mret>>

\* the other functions of the command provisioner
binVars == <<bpc, bUri, bHost, bSegs, bCwd, bHome, bBinDir, bParts, pathParts, bret, berr>>

parseVars == <<kpc, raw, rawUri, kp, kret, kerr>>

cancelVars == <<caller, ctxDone, cancelAsked, cancelAt, subproc, cpc, ccalls>>

cmdVars == <<matchVars, binVars, parseVars, cancelVars>>

\* what generate leaves alone
notGen == <<initVars, ovVars, provVars, cmdVars>>

vars == <<genVars, initVars, ovVars, provVars, cmdVars>>

(***************************************************************************)
(* Bounds of the model.                                                    *)
(***************************************************************************)
\* the most input files on one generate command line
MaxArgs == 2
\* the most generate runs (completed, failed or killed) in one behaviour
MaxRuns == 2

(***************************************************************************)
(* Sequences and files.                                                    *)
(***************************************************************************)
SeqsUpTo(S, n) == UNION {[1..k -> S] : k \in 0..n}

IsPrefix(p, s) == Len(p) <= Len(s) /\ SubSeq(s, 1, Len(p)) = p

\* a file: whether it exists, and its content
Absent == [e |-> FALSE, d |-> <<>>]

File(d) == [e |-> TRUE, d |-> d]

\* writing `new` at offset 0 of a file holding `old`, without truncating it
Overwrite(old, new) ==
    IF Len(new) >= Len(old) THEN new
    ELSE new \o SubSeq(old, Len(new) + 1, Len(old))

(***************************************************************************)
(* Paths and slices.Sort.                                                  *)
(***************************************************************************)
\* the characters of a path, by code
Chr == <<"a", "b">>

\* a.score.yaml, aa.score.yaml, b.score.yaml (the common suffix left out)
Paths == {<<1>>, <<1, 1>>, <<2>>}

RECURSIVE StrLess(_, _)
\* Go's < on strings: byte-wise lexicographic, a proper prefix is smaller
StrLess(a, b) ==
    IF b = <<>> THEN FALSE
    ELSE IF a = <<>> THEN TRUE
    ELSE IF Head(a) # Head(b) THEN Head(a) < Head(b)
    ELSE StrLess(Tail(a), Tail(b))

RECURSIVE InsertSorted(_, _)
InsertSorted(x, s) ==
    IF s = <<>> THEN <<x>>
    ELSE IF StrLess(x, Head(s)) THEN <<x>> \o s
    ELSE <<Head(s)>> \o InsertSorted(x, Tail(s))

RECURSIVE SortedOf(_)
SortedOf(s) == IF s = <<>> THEN <<>> ELSE InsertSorted(Head(s), SortedOf(Tail(s)))

\* a command line left in argument order
SortArgs_Unsorted(s) == s

\* slices.Sort(args)
SortArgs(s) == SortedOf(s)

(***************************************************************************)
(* The project state and its encoding in the state file.                   *)
(***************************************************************************)
\* the workload names, in the order of their bytes
NameOrder == <<"w1", "w2">>

WorkloadNames == {NameOrder[i] : i \in 1..Len(NameOrder)}

ResKeys == {"r1", "r2"}

\* a workload document: its metadata.name and the resource it declares
WorkloadDocs == [name : WorkloadNames, res : ResKeys \cup {"none"}]

\* what each input file holds
FileContent(p) ==
    IF p = <<1>> THEN [name |-> "w1", res |-> "r1"]
    ELSE IF p = <<1, 1>> THEN [name |-> "w1", res |-> "none"]
    ELSE [name |-> "w2", res |-> "r2"]

\* a manifest is a document tree; the model keeps its scalars, in walk order
Scalars == {"val", "secretref"}

CleanManifest == <<"val">>

LeakyManifest == <<"val", "secretref">>

RECURSIVE ByNameFrom(_, _)
ByNameFrom(ws, r) ==
    IF r > Len(NameOrder) THEN <<>>
    ELSE SelectSeq(ws, LAMBDA e : e.name = NameOrder[r]) \o ByNameFrom(ws, r + 1)

\* state.Workloads is a Go map keyed by workload name (line 270 ranges over its
\* keys): it keeps no insertion order.  The model holds its entries in key
\* order, the order in which the yaml encoder writes a map.
ByName(ws) == ByNameFrom(ws, 1)

EmptyState == [Workloads |-> <<>>, Resources |-> <<>>, Manifests |-> <<>>]

RECURSIVE EncWorkloads(_)
EncWorkloads(ws) ==
    IF ws = <<>> THEN <<>>
    ELSE <<ws[1].name, ws[1].res>> \o [i \in 1..Len(ws[1].file) |-> Chr[ws[1].file[i]]]
         \o <<";">> \o EncWorkloads(Tail(ws))

RECURSIVE EncResources(_)
EncResources(rs) ==
    IF rs = <<>> THEN <<>>
    ELSE <<rs[1].key, IF rs[1].prov THEN "provisioned" ELSE "pending">>
         \o EncResources(Tail(rs))

RECURSIVE EncManifests(_)
EncManifests(ms) ==
    IF ms = <<>> THEN <<>> ELSE ms[1] \o <<";">> \o EncManifests(Tail(ms))

\* yaml.NewEncoder(f).Encode(state): the canonical encoding
Encode(st) ==
    <<"workloads:">> \o EncWorkloads(st.Workloads)
    \o <<"resources:">> \o EncResources(st.Resources)
    \o <<"manifests:">> \o EncManifests(st.Manifests)

DecodeError == [ok |-> FALSE, val |-> EmptyState]

ChrCode(c) == CHOOSE i \in 1..Len(Chr) : Chr[i] = c

ChrSet == {Chr[i] : i \in 1..Len(Chr)}

\* the index of the first t in b, 0 when there is none
IndexOf(b, t) ==
    IF \E i \in 1..Len(b) : b[i] = t
    THEN CHOOSE i \in 1..Len(b) : b[i] = t /\ \A j \in 1..(i - 1) : b[j] # t
    ELSE 0

DecOk(v) == [ok |-> TRUE, val |-> v]

DecBad == [ok |-> FALSE, val |-> <<>>]

RECURSIVE DecWorkloads(_)
\* the workloads section: name, resource, path characters, ";"
DecWorkloads(b) ==
    IF b = <<>> THEN DecOk(<<>>)
    ELSE LET semi == IndexOf(b, ";")
         IN IF semi < 4 \/ b[1] \notin WorkloadNames \/ b[2] \notin ResKeys \cup {"none"}
               \/ \E i \in 3..(semi - 1) : b[i] \notin ChrSet
            THEN DecBad
            ELSE LET rest == DecWorkloads(SubSeq(b, semi + 1, Len(b)))
                 IN IF ~rest.ok THEN DecBad
                    \* a mapping key defined twice is a decode error
                    ELSE IF \E i \in 1..Len(rest.val) : rest.val[i].name = b[1] THEN DecBad
                    ELSE DecOk(<<[name |-> b[1], res |-> b[2],
                                  file |-> [i \in 1..(semi - 3) |-> ChrCode(b[i + 2])]]>>
                               \o rest.val)

RECURSIVE DecResources(_)
\* the resources section: key, "provisioned" or "pending"
DecResources(b) ==
    IF b = <<>> THEN DecOk(<<>>)
    ELSE IF Len(b) < 2 \/ b[1] \notin ResKeys \/ b[2] \notin {"provisioned", "pending"}
    THEN DecBad
    ELSE LET rest == DecResources(SubSeq(b, 3, Len(b)))
         IN IF ~rest.ok THEN DecBad
            ELSE IF \E i \in 1..Len(rest.val) : rest.val[i].key = b[1] THEN DecBad
            ELSE DecOk(<<[key |-> b[1], prov |-> (b[2] = "provisioned")]>> \o rest.val)

RECURSIVE DecManifests(_)
\* the manifests section: scalars, ";"
DecManifests(b) ==
    IF b = <<>> THEN DecOk(<<>>)
    ELSE LET semi == IndexOf(b, ";")
         IN IF semi < 2 \/ \E i \in 1..(semi - 1) : b[i] \notin Scalars
            THEN DecBad
            ELSE LET rest == DecManifests(SubSeq(b, semi + 1, Len(b)))
                 IN IF ~rest.ok THEN DecBad
                    ELSE DecOk(<<SubSeq(b, 1, semi - 1)>> \o rest.val)

\* yaml.NewDecoder(raw).Decode(&rawState)
Decode(b) ==
    LET r == IndexOf(b, "resources:")
        m == IndexOf(b, "manifests:")
    IN IF b = <<>> \/ b[1] # "workloads:" \/ r = 0 \/ m = 0 \/ m < r THEN DecodeError
       ELSE LET ws == DecWorkloads(SubSeq(b, 2, r - 1))
                rs == DecResources(SubSeq(b, r + 1, m - 1))
                ms == DecManifests(SubSeq(b, m + 1, Len(b)))
            IN IF ~ws.ok \/ ~rs.ok \/ ~ms.ok THEN DecodeError
               ELSE [ok |-> TRUE,
                     val |-> [Workloads |-> ByName(ws.val), Resources |-> rs.val,
                              Manifests |-> ms.val]]

(***************************************************************************)
(* Operations on the project state.                                        *)
(***************************************************************************)
HasWorkload(st, n) == \E i \in 1..Len(st.Workloads) : st.Workloads[i].name = n

HasResource(st, k) == \E i \in 1..Len(st.Resources) : st.Resources[i].key = k

\* state.WithWorkload(&workload, &arg, ...): the entry under the workload's name
\* is set
WithWorkload(st, w, file) ==
    LET entry == [name |-> w.name, res |-> w.res, file |-> file]
    IN [st EXCEPT !.Workloads =
            IF HasWorkload(st, w.name)
            THEN [i \in 1..Len(st.Workloads) |->
                    IF st.Workloads[i].name = w.name THEN entry ELSE st.Workloads[i]]
            ELSE ByName(Append(st.Workloads, entry))]

RECURSIVE PrimeFrom(_, _)
PrimeFrom(rs, ws) ==
    IF ws = <<>> THEN rs
    ELSE IF ws[1].res = "none" \/ \E i \in 1..Len(rs) : rs[i].key = ws[1].res
    THEN PrimeFrom(rs, Tail(ws))
    ELSE PrimeFrom(Append(rs, [key |-> ws[1].res, prov |-> FALSE]), Tail(ws))

\* state.WithPrimedResources(): every declared resource gets a record; a known
\* record is kept
WithPrimedResources(st) == [st EXCEPT !.Resources = PrimeFrom(st.Resources, st.Workloads)]

\* the first resource record not yet provisioned, 0 when there is none
FirstPending(st) ==
    IF \E i \in 1..Len(st.Resources) : ~st.Resources[i].prov
    THEN CHOOSE i \in 1..Len(st.Resources) :
            ~st.Resources[i].prov /\ \A j \in 1..(i - 1) : st.Resources[j].prov
    ELSE 0

\* the Provision Output folded into the resource's record and the extras
WithProvisioned(st, i, manifests) ==
    [st EXCEPT !.Resources[i].prov = TRUE, !.Manifests = st.Manifests \o manifests]

\* internal.FindFirstUnresolvedSecretRef("", manifest): the place of the first
\* unresolved secret reference in the walk, 0 when there is none
FindFirstUnresolvedSecretRef(m) == IndexOf(m, "secretref")

\* the first manifest of ms that holds an unresolved secret reference, 0 for none
FirstLeaky(ms) ==
    IF \E i \in 1..Len(ms) : FindFirstUnresolvedSecretRef(ms[i]) # 0
    THEN CHOOSE i \in 1..Len(ms) :
            /\ FindFirstUnresolvedSecretRef(ms[i]) # 0
            /\ \A j \in 1..(i - 1) : FindFirstUnresolvedSecretRef(ms[j]) = 0
    ELSE 0

RECURSIVE Framed(_)
\* the manifests as they go to the buffer: "---\n", the document, "\n"
Framed(ms) ==
    IF ms = <<>> THEN <<>> ELSE <<"---">> \o ms[1] \o <<"nl">> \o Framed(Tail(ms))

(***************************************************************************)
(* generate (src/main.go, generateCmd.RunE), one action per statement that *)
(* can fail or that touches the filesystem.                                *)
(***************************************************************************)
ArgLists == SeqsUpTo(Paths, MaxArgs)

\* --overrides-file: not given, given empty, given a file; --override-property:
\* given at least once or not
FlagSets == [ovFile : {"unset", "empty", "set"}, ovProp : BOOLEAN]

NoFlags == [ovFile |-> "unset", ovProp |-> FALSE]

\* cmd.Flags().Lookup(...).Changed of either override flag
OverrideFlagChanged(fl) == fl.ovFile # "unset" \/ fl.ovProp

Running ==
    {"load", "flags", "read", "override", "validate", "merge", "empty", "prime",
     "loadprov", "provision", "opentmp", "encode", "close", "rename", "resman",
     "convert", "emit", "outrename"}

Snapshot ==
    [stateFile |-> stateFile, stateTmp |-> stateTmp, outFile |-> outFile,
     outTmp |-> outTmp, stdout |-> stdout]

NoDoc == [name |-> "", res |-> "none"]

\* return errors.Wrap(...): the run ends with an error
Fail(tag) == pc' = "error" /\ result' = tag /\ UNCHANGED runs

Goto(l) == pc' = l /\ UNCHANGED <<result, runs>>

\* a new process: the command line is chosen, the locals are fresh
StartRun ==
    /\ pc \in {"idle", "done", "error", "crashed"}
    /\ runs < MaxRuns
    /\ \E a \in ArgLists, fl \in FlagSets :
        /\ argv' = a
        /\ flags' = fl
    /\ pc' = "load" /\ result' = "" /\ runs' = runs + 1
    /\ state' = EmptyState /\ args' = argv' /\ idx' = 1 /\ workload' = NoDoc
    /\ out' = <<>> /\ mi' = 1
    /\ start' = Snapshot /\ loaded' = EmptyState /\ readLog' = <<>> /\ mergeLog' = <<>>
    /\ provRuns' = 0 /\ renamed' = FALSE /\ written' = <<>> /\ crashAt' = ""
    /\ UNCHANGED fsVars
    /\ UNCHANGED notGen

\* lines 140-151
LoadState ==
    /\ pc = "load"
    /\ IF ~stateFile.e THEN Fail("readstate") /\ UNCHANGED <<state, loaded>>
       ELSE IF ~Decode(stateFile.d).ok THEN Fail("loadstate") /\ UNCHANGED <<state, loaded>>
       ELSE /\ state' = Decode(stateFile.d).val
            /\ loaded' = state'
            /\ Goto("flags")
    /\ UNCHANGED <<fsVars, cliVars, args, idx, workload, out, mi>>
    /\ UNCHANGED <<start, readLog, mergeLog, provRuns, renamed, written, crashAt>>
    /\ UNCHANGED notGen

\* the guard of line 153 put wrongly: only more than one file is refused
RejectsOverrides_ManyOnly(a, fl) == Len(a) > 1 /\ OverrideFlagChanged(fl)

\* line 153
RejectsOverrides(a, fl) == Len(a) # 1 /\ OverrideFlagChanged(fl)

\* lines 153-157
CheckFlags ==
    /\ pc = "flags"
    /\ IF RejectsOverrides(args, flags) THEN Fail("flags") /\ UNCHANGED args
       ELSE /\ args' = SortArgs(args)
            /\ Goto(IF Len(args) = 0 THEN "empty" ELSE "read")
    /\ UNCHANGED <<fsVars, cliVars, state, idx, workload, out, mi, histVars>>
    /\ UNCHANGED notGen

\* lines 159-164
ReadInput ==
    /\ pc = "read"
    /\ readLog' = Append(readLog, args[idx])
    /\ \/ Fail("readinput") /\ UNCHANGED workload
       \/ workload' = FileContent(args[idx]) /\ Goto("override")
    /\ UNCHANGED <<fsVars, cliVars, state, args, idx, out, mi>>
    /\ UNCHANGED <<start, loaded, mergeLog, provRuns, renamed, written, crashAt>>
    /\ UNCHANGED notGen

\* lines 166-182: the override file, then the override properties. What they do to
\* a document is OverrideStep's business below; here the document they leave is
\* any workload document
ApplyOverrides ==
    /\ pc = "override"
    /\ IF flags.ovFile = "set" \/ flags.ovProp
       THEN \/ Fail("override") /\ UNCHANGED workload
            \/ \E w \in WorkloadDocs : workload' = w /\ Goto("validate")
       ELSE workload' = workload /\ Goto("validate")
    /\ UNCHANGED <<fsVars, cliVars, state, args, idx, out, mi, histVars>>
    /\ UNCHANGED notGen

\* lines 184-209: upgrade transforms, schema validation, typed decoding; the
\* container images are not part of a workload document here
ValidateWorkload ==
    /\ pc = "validate"
    /\ \/ Fail("validate")
       \/ Goto("merge")
    /\ UNCHANGED <<fsVars, cliVars, memVars, histVars>>
    /\ UNCHANGED notGen

\* lines 211-215
MergeWorkload ==
    /\ pc = "merge"
    /\ \/ Fail("merge") /\ UNCHANGED <<state, idx, mergeLog>>
       \/ /\ state' = WithWorkload(state, workload, args[idx])
          /\ mergeLog' = Append(mergeLog, [file |-> args[idx], name |-> workload.name])
          /\ idx' = idx + 1
          /\ Goto(IF idx + 1 > Len(args) THEN "empty" ELSE "read")
    /\ UNCHANGED <<fsVars, cliVars, args, workload, out, mi>>
    /\ UNCHANGED <<start, loaded, readLog, provRuns, renamed, written, crashAt>>
    /\ UNCHANGED notGen

\* lines 217-219 without the return: an empty project goes on to priming
CheckEmpty_Lenient ==
    /\ pc = "empty"
    /\ Goto("prime")
    /\ UNCHANGED <<fsVars, cliVars, memVars, histVars>>
    /\ UNCHANGED notGen

\* lines 217-219
CheckEmpty ==
    /\ pc = "empty"
    /\ IF Len(state.Workloads) = 0 THEN Fail("empty") ELSE Goto("prime")
    /\ UNCHANGED <<fsVars, cliVars, memVars, histVars>>
    /\ UNCHANGED notGen

\* lines 221-225
PrimeResources ==
    /\ pc = "prime"
    /\ \/ Fail("prime") /\ UNCHANGED state
       \/ state' = WithPrimedResources(state) /\ Goto("loadprov")
    /\ UNCHANGED <<fsVars, cliVars, args, idx, workload, out, mi, histVars>>
    /\ UNCHANGED notGen

\* lines 227-231
LoadProvisioners ==
    /\ pc = "loadprov"
    /\ \/ Fail("loadprov")
       \/ Goto("provision")
    /\ UNCHANGED <<fsVars, cliVars, memVars, histVars>>
    /\ UNCHANGED notGen

\* what one provisioner subprocess may answer with: its directly emitted manifests
ProvisionOutputs == {<<CleanManifest>>, <<LeakyManifest>>}

\* lines 233-236 with the state saved after every resource that was provisioned
ProvisionNext_Persisting ==
    /\ pc = "provision"
    /\ FirstPending(state) # 0
    /\ \/ Fail("provision") /\ UNCHANGED <<state, provRuns, stateFile>>
       \/ Fail("provision") /\ provRuns' = provRuns + 1 /\ UNCHANGED <<state, stateFile>>
       \/ \E o \in ProvisionOutputs :
            /\ state' = WithProvisioned(state, FirstPending(state), o)
            /\ stateFile' = File(Encode(state'))
            /\ provRuns' = provRuns + 1
            /\ Goto("provision")
    /\ UNCHANGED <<stateTmp, outFile, outTmp, stdout, cliVars, args, idx, workload, out, mi>>
    /\ UNCHANGED <<start, loaded, readLog, mergeLog, renamed, written, crashAt>>
    /\ UNCHANGED notGen

\* lines 233-236, one resource of ProvisionResources: no descriptor matches, or
\* the subprocess runs and fails, or its output is folded into the state
ProvisionNext ==
    /\ pc = "provision"
    /\ FirstPending(state) # 0
    /\ \/ Fail("provision") /\ UNCHANGED <<state, provRuns>>
       \/ Fail("provision") /\ provRuns' = provRuns + 1 /\ UNCHANGED state
       \/ \E o \in ProvisionOutputs :
            /\ state' = WithProvisioned(state, FirstPending(state), o)
            /\ provRuns' = provRuns + 1
            /\ Goto("provision")
    /\ UNCHANGED <<fsVars, cliVars, args, idx, workload, out, mi>>
    /\ UNCHANGED <<start, loaded, readLog, mergeLog, renamed, written, crashAt>>
    /\ UNCHANGED notGen

\* lines 233-236: ProvisionResources returns without an error
ProvisionDone ==
    /\ pc = "provision"
    /\ FirstPending(state) = 0
    /\ Goto("opentmp")
    /\ UNCHANGED <<fsVars, cliVars, memVars, histVars>>
    /\ UNCHANGED notGen

\* line 238: os.OpenFile(state.yaml.tmp, O_CREATE|O_WRONLY): a file that is there
\* is opened as it is, not truncated
OpenStateTmp ==
    /\ pc = "opentmp"
    /\ \/ Fail("opentmp") /\ UNCHANGED stateTmp
       \/ /\ stateTmp' = IF stateTmp.e THEN stateTmp ELSE File(<<>>)
          /\ Goto("encode")
    /\ UNCHANGED <<stateFile, outFile, outTmp, stdout, cliVars, memVars, histVars>>
    /\ UNCHANGED notGen

\* line 242, with the write aimed at the state file itself
EncodeState_InPlace ==
    /\ pc = "encode"
    /\ written' = Encode(state)
    /\ \/ /\ stateFile' = File(Overwrite(stateFile.d, written'))
          /\ Goto("close")
       \/ \E k \in 0..(Len(written') - 1) :
            /\ stateFile' = File(Overwrite(stateFile.d, SubSeq(written', 1, k)))
            /\ Fail("marshal")
    /\ UNCHANGED <<stateTmp, outFile, outTmp, stdout, cliVars, memVars>>
    /\ UNCHANGED <<start, loaded, readLog, mergeLog, provRuns, renamed, crashAt>>
    /\ UNCHANGED notGen

\* line 242: yaml.NewEncoder(f).Encode(state), all of it or, on a write error,
\* some of it
EncodeState ==
    /\ pc = "encode"
    /\ written' = Encode(state)
    /\ \/ /\ stateTmp' = File(Overwrite(stateTmp.d, written'))
          /\ Goto("close")
       \/ \E k \in 0..(Len(written') - 1) :
            /\ stateTmp' = File(Overwrite(stateTmp.d, SubSeq(written', 1, k)))
            /\ Fail("marshal")
    /\ UNCHANGED <<stateFile, outFile, outTmp, stdout, cliVars, memVars>>
    /\ UNCHANGED <<start, loaded, readLog, mergeLog, provRuns, renamed, crashAt>>
    /\ UNCHANGED notGen

\* line 244
CloseStateTmp ==
    /\ pc = "close"
    /\ \/ Fail("close")
       \/ Goto("rename")
    /\ UNCHANGED <<fsVars, cliVars, memVars, histVars>>
    /\ UNCHANGED notGen

\* line 246: os.Rename(state.yaml.tmp, state.yaml)
RenameState ==
    /\ pc = "rename"
    /\ \/ Fail("move") /\ UNCHANGED <<stateFile, stateTmp, renamed>>
       \/ /\ stateFile' = stateTmp
          /\ stateTmp' = Absent
          /\ renamed' = TRUE
          /\ Goto("resman")
    /\ UNCHANGED <<outFile, outTmp, stdout, cliVars, memVars>>
    /\ UNCHANGED <<start, loaded, readLog, mergeLog, provRuns, written, crashAt>>
    /\ UNCHANGED notGen

\* lines 255-267 with each manifest printed as soon as it is scanned clean
ScanResourceManifest_Streaming ==
    /\ pc = "resman"
    /\ mi <= Len(state.Manifests)
    /\ IF FindFirstUnresolvedSecretRef(state.Manifests[mi]) # 0
       THEN Fail("secret") /\ UNCHANGED <<out, mi, stdout>>
       ELSE \/ Fail("recode") /\ UNCHANGED <<out, mi, stdout>>
            \/ /\ out' = out \o Framed(<<state.Manifests[mi]>>)
               /\ stdout' = stdout \o Framed(<<state.Manifests[mi]>>)
               /\ mi' = mi + 1
               /\ Goto("resman")
    /\ UNCHANGED <<stateFile, stateTmp, outFile, outTmp>>
    /\ UNCHANGED <<cliVars, state, args, idx, workload, histVars>>
    /\ UNCHANGED notGen

\* lines 255-267, one manifest of state.Extras.Manifests
ScanResourceManifest ==
    /\ pc = "resman"
    /\ mi <= Len(state.Manifests)
    /\ IF FindFirstUnresolvedSecretRef(state.Manifests[mi]) # 0
       THEN Fail("secret") /\ UNCHANGED <<out, mi>>
       ELSE \/ Fail("recode") /\ UNCHANGED <<out, mi>>
            \/ /\ out' = out \o Framed(<<state.Manifests[mi]>>)
               /\ mi' = mi + 1
               /\ Goto("resman")
    /\ UNCHANGED <<fsVars, cliVars, state, args, idx, workload, histVars>>
    /\ UNCHANGED notGen

\* line 268: the loop over the resource manifests is over
ResourceManifestsDone ==
    /\ pc = "resman"
    /\ mi > Len(state.Manifests)
    /\ mi' = 1
    /\ Goto("convert")
    /\ UNCHANGED <<fsVars, cliVars, state, args, idx, workload, out, histVars>>
    /\ UNCHANGED notGen

\* what convert.ConvertWorkload may return for one workload
ConvertOutputs == {<<CleanManifest>>, <<CleanManifest, LeakyManifest>>}

\* lines 270-291, one workload: converted, each manifest scanned and buffered
ConvertWorkload ==
    /\ pc = "convert"
    /\ mi <= Len(state.Workloads)
    /\ \/ Fail("convert") /\ UNCHANGED <<out, mi>>
       \/ \E ms \in ConvertOutputs :
            IF FirstLeaky(ms) # 0
            THEN /\ out' = out \o Framed(SubSeq(ms, 1, FirstLeaky(ms) - 1))
                 /\ Fail("secret")
                 /\ UNCHANGED mi
            ELSE /\ out' = out \o Framed(ms)
                 /\ mi' = mi + 1
                 /\ Goto("convert")
    /\ UNCHANGED <<fsVars, cliVars, state, args, idx, workload, histVars>>
    /\ UNCHANGED notGen

\* line 292: the loop over the workloads is over
ConvertDone ==
    /\ pc = "convert"
    /\ mi > Len(state.Workloads)
    /\ Goto("emit")
    /\ UNCHANGED <<fsVars, cliVars, memVars, histVars>>
    /\ UNCHANGED notGen

\* the values of --output: none, standard output, a file
OutputTargets == {"", "-", "manifests.yaml"}

\* lines 293-299 with the stream written onto the output file itself
EmitOutput_InPlace ==
    /\ pc = "emit"
    /\ \E v \in OutputTargets :
        IF v = "" THEN Fail("nooutput") /\ UNCHANGED <<stdout, outFile>>
        ELSE IF v = "-" THEN stdout' = stdout \o out /\ Goto("done") /\ UNCHANGED outFile
        ELSE \/ \E k \in 0..Len(out) :
                    /\ outFile' = File(SubSeq(out, 1, k))
                    /\ Fail("writeout")
                    /\ UNCHANGED stdout
             \/ outFile' = File(out) /\ Goto("outrename") /\ UNCHANGED stdout
    /\ UNCHANGED <<stateFile, stateTmp, outTmp, cliVars, memVars, histVars>>
    /\ UNCHANGED notGen

\* lines 293-299: os.WriteFile truncates, then writes
EmitOutput ==
    /\ pc = "emit"
    /\ \E v \in OutputTargets :
        IF v = "" THEN Fail("nooutput") /\ UNCHANGED <<stdout, outTmp>>
        ELSE IF v = "-" THEN stdout' = stdout \o out /\ Goto("done") /\ UNCHANGED outTmp
        ELSE \/ \E k \in 0..Len(out) :
                    /\ outTmp' \in {outTmp, File(SubSeq(out, 1, k))}
                    /\ Fail("writeout")
                    /\ UNCHANGED stdout
             \/ outTmp' = File(out) /\ Goto("outrename") /\ UNCHANGED stdout
    /\ UNCHANGED <<stateFile, stateTmp, outFile, cliVars, memVars, histVars>>
    /\ UNCHANGED notGen

\* lines 300-305: os.Rename(v+".tmp", v)
RenameOutput ==
    /\ pc = "outrename"
    /\ \/ Fail("completeout") /\ UNCHANGED <<outFile, outTmp>>
       \/ outFile' = outTmp /\ outTmp' = Absent /\ Goto("done")
    /\ UNCHANGED <<stateFile, stateTmp, stdout, cliVars, memVars, histVars>>
    /\ UNCHANGED notGen

\* the process is killed; the locals are gone, the files stay as they are, and a
\* write in progress has gone through in part
Crash ==
    /\ pc \in Running
    /\ crashAt' = pc
    /\ pc' = "crashed"
    /\ \/ UNCHANGED <<stateTmp, outTmp>>
       \/ /\ pc = "encode"
          /\ \E k \in 1..(Len(Encode(state)) - 1) :
                stateTmp' = File(Overwrite(stateTmp.d, SubSeq(Encode(state), 1, k)))
          /\ UNCHANGED outTmp
       \/ /\ pc = "emit"
          /\ \E k \in 0..Len(out) : outTmp' = File(SubSeq(out, 1, k))
          /\ UNCHANGED stateTmp
    /\ state' = EmptyState /\ args' = <<>> /\ idx' = 1 /\ workload' = NoDoc
    /\ out' = <<>> /\ mi' = 1
    /\ UNCHANGED <<result, runs, stateFile, outFile, stdout, cliVars>>
    /\ UNCHANGED <<start, loaded, readLog, mergeLog, provRuns, renamed, written>>
    /\ UNCHANGED notGen

\* every variable of generate but the state file, before the first run
GenRest ==
    /\ pc = "idle" /\ result = "" /\ runs = 0
    /\ stateTmp = Absent
    /\ outFile = Absent
    /\ outTmp = Absent
    /\ stdout = <<>>
    /\ argv = <<>> /\ flags = NoFlags
    /\ state = EmptyState /\ args = <<>> /\ idx = 1 /\ workload = NoDoc
    /\ out = <<>> /\ mi = 1
    /\ start = Snapshot /\ loaded = EmptyState /\ readLog = <<>> /\ mergeLog = <<>>
    /\ provRuns = 0 /\ renamed = FALSE /\ written = <<>> /\ crashAt = ""

\* generate at rest, no state file
GenIdle == stateFile = Absent /\ GenRest

GenInit ==
    \* the state file as init leaves it, or none: generate without init
    /\ stateFile \in {Absent, File(Encode(EmptyState))}
    /\ GenRest

GenNext ==
    \/ StartRun
    \/ LoadState
    \/ CheckFlags
    \/ ReadInput
    \/ ApplyOverrides
    \/ ValidateWorkload
    \/ MergeWorkload
    \/ CheckEmpty
    \/ PrimeResources
    \/ LoadProvisioners
    \/ ProvisionNext
    \/ ProvisionDone
    \/ OpenStateTmp
    \/ EncodeState
    \/ CloseStateTmp
    \/ RenameState
    \/ ScanResourceManifest
    \/ ResourceManifestsDone
    \/ ConvertWorkload
    \/ ConvertDone
    \/ EmitOutput
    \/ RenameOutput
    \/ Crash

(***************************************************************************)
(* Properties of generate.                                                 *)
(***************************************************************************)
\* the failures of the stages before the state is persisted
PrePersistFailures ==
    {"readstate", "loadstate", "flags", "readinput", "override", "validate", "merge",
     "empty", "prime", "loadprov", "provision"}

\* the places of a run between starting to write state.yaml.tmp and the rename
PersistWindow == {"encode", "close", "rename"}

\* C1: when the scanner finds an unresolved secret reference in any manifest,
\* generate returns an error and neither standard output nor the output file nor
\* its .tmp has received anything, the manifests scanned clean before included.
C1_SecretAbortWritesNothing ==
    result = "secret" =>
        /\ pc = "error"
        /\ stdout = start.stdout
        /\ outFile = start.outFile
        /\ outTmp = start.outTmp

\* a secret reference found after clean manifests were already in the buffer
C1_Witness == pc = "error" /\ result = "secret" /\ Len(out) > 0

C3_ErrorLeavesOutput ==
    /\ pc = "error" => outFile = start.outFile /\ stdout = start.stdout
    /\ (outFile # start.outFile \/ stdout # start.stdout) => pc = "done"

\* the rename of the output failed and the earlier output file is still there
C3_Witness ==
    /\ pc = "error" /\ result = "completeout"
    /\ outFile.e /\ outFile = start.outFile /\ outTmp.e /\ outTmp.d # outFile.d

\* C4 (the order of the stages): manifest assembly starts only after every
\* resource is provisioned and the state file was renamed in place.
C4_StageOrder ==
    pc \in {"resman", "convert", "emit", "outrename", "done"}
        => renamed /\ FirstPending(state) = 0

\* C4: when generate aborts on an unresolved secret reference, provisioning is
\* over and the state file holds the post-provisioning state.
C4_SecretAbortStatePersisted ==
    result = "secret" =>
        /\ renamed
        /\ FirstPending(state) = 0
        /\ stateFile = File(Encode(state))

\* C5: when provisioning, or any stage before persistence, fails, the state file
\* is what it was before the run, and no temporary state file was written.
C5_FailureKeepsStateFile ==
    (pc = "error" /\ result \in PrePersistFailures) =>
        /\ stateFile = start.stateFile
        /\ stateTmp = start.stateTmp

\* provisioning failed after an earlier resource of the same pass had succeeded
C5_Witness ==
    /\ pc = "error" /\ result = "provision"
    /\ \E i \in 1..Len(state.Resources) :
            state.Resources[i].prov /\ ~HasResource(loaded, state.Resources[i].key)

\* C7: with zero or several input files the override flags are refused before
\* any input file is read or any provisioner runs, with the state file and the
\* output untouched; with exactly one input file they are not refused.
C7_OverridesNeedOneFile ==
    /\ result = "flags" =>
        /\ pc = "error" /\ Len(argv) # 1
        /\ readLog = <<>> /\ provRuns = 0
        /\ stateFile = start.stateFile /\ stateTmp = start.stateTmp
        /\ outFile = start.outFile /\ stdout = start.stdout
    /\ (Len(argv) # 1 /\ OverrideFlagChanged(flags)) =>
        \/ pc \in {"load", "flags"}
        \/ pc = "crashed" /\ crashAt \in {"load", "flags"}
        \/ pc = "error" /\ result \in {"readstate", "loadstate", "flags"}
    /\ Len(argv) = 1 => result # "flags"

\* an override property given with no input file at all
C7_Witness == pc = "error" /\ result = "flags" /\ Len(argv) = 0 /\ flags.ovProp

Count(s, x) == Cardinality({i \in 1..Len(s) : s[i] = x})

\* s holds the elements of a, each as often, in ascending order
IsSortedPermutation(s, a) ==
    /\ Len(s) = Len(a)
    /\ \A x \in Paths : Count(s, x) = Count(a, x)
    /\ \A i, j \in 1..Len(s) : i < j => ~StrLess(s[j], s[i])

AfterEmptyCheck ==
    {"prime", "loadprov", "provision", "opentmp", "encode", "close", "rename",
     "resman", "convert", "emit", "outrename", "done"}

\* C11: a run whose merge left no workload returns an error with no resource
\* primed or provisioned, no provisioner run, the state file and its temporary
\* file not written and nothing emitted; no run gets past the check of line 217
\* with an empty project.
C11_EmptyProjectAborts ==
    /\ result = "empty" =>
        /\ pc = "error"
        /\ Len(state.Workloads) = 0
        /\ state = loaded
        /\ provRuns = 0
        /\ stateFile = start.stateFile /\ stateTmp = start.stateTmp
        /\ outFile = start.outFile /\ outTmp = start.outTmp /\ stdout = start.stdout
        /\ out = <<>>
    /\ pc \in AfterEmptyCheck => Len(state.Workloads) > 0

\* generate with no input file over the state file init wrote
C11_Witness ==
    /\ pc = "error" /\ result = "empty"
    /\ argv = <<>> /\ stateFile = File(Encode(EmptyState))

(***************************************************************************)
(* init (src/main.go, initCmd.RunE).                                       *)
(***************************************************************************)
\* the most init runs in one behaviour
MaxInitRuns == 3

\* yaml of provisioners.DefaultProvisioners
DefaultProvisionersDoc == <<"provisioners:", "default">>

\* yaml of the example workload of lines 103-113
ExampleWorkloadDoc == <<"apiVersion:score.dev/v1b1", "name:example", "image:podinfo">>

\* what a managed file may hold before init ever ran
FoundFiles(canonical) == {Absent, File(<<>>), File(<<"custom">>), File(canonical)}

ManagedFiles(sf, pf, cf) == [state |-> sf, prov |-> pf, score |-> cf]

InitRunning == {"mkdir", "state", "stateenc", "prov", "provenc", "score", "scoreenc"}

IFail(tag) == ipc' = "error" /\ iresult' = tag /\ UNCHANGED ifirst

IGoto(l) == ipc' = l /\ UNCHANGED <<iresult, ifirst>>

\* return nil (line 127)
IDone(sf, pf, cf) ==
    /\ ipc' = "done"
    /\ ifirst' = [n |-> ifirst.n + 1,
                  files |-> IF ifirst.n = 0 THEN ManagedFiles(sf, pf, cf) ELSE ifirst.files]
    /\ UNCHANGED iresult

\* what init leaves alone
notInit ==
    <<pc, result, runs, stateTmp, outFile, outTmp, stdout, cliVars, memVars, histVars,
      ovVars, provVars, cmdVars>>

InitStart ==
    /\ ipc \in {"idle", "done", "error", "crashed"}
    /\ iruns < MaxInitRuns
    /\ iruns' = iruns + 1
    /\ istart' = ManagedFiles(stateFile, provFile, scoreFile)
    /\ ipc' = "mkdir" /\ iresult' = ""
    /\ UNCHANGED <<stateFile, provFile, scoreFile, ifirst, icreated, notInit>>

\* lines 52-54
InitMkdir ==
    /\ ipc = "mkdir"
    /\ \/ IFail("mkdir")
       \/ IGoto("state")
    /\ UNCHANGED <<stateFile, provFile, scoreFile, iruns, istart, icreated, notInit>>

\* lines 56-66 without the os.Stat: the state file is opened and emptied always
InitStateFile_Overwriting ==
    /\ ipc = "state"
    /\ \/ IFail("openstate") /\ UNCHANGED <<stateFile, icreated>>
       \/ /\ stateFile' = File(<<>>)
          /\ icreated' = icreated \cup {"state"}
          /\ IGoto("stateenc")
    /\ UNCHANGED <<provFile, scoreFile, iruns, istart, notInit>>

\* lines 56-66, 74-76: os.Stat, and os.OpenFile(O_CREATE|O_WRONLY) when the state
\* file is not there
InitStateFile ==
    /\ ipc = "state"
    /\ \/ IFail("statstate") /\ UNCHANGED <<stateFile, icreated>>
       \/ /\ stateFile.e
          /\ IGoto("prov")
          /\ UNCHANGED <<stateFile, icreated>>
       \/ /\ ~stateFile.e
          /\ \/ IFail("openstate") /\ UNCHANGED <<stateFile, icreated>>
             \/ /\ stateFile' = File(<<>>)
                /\ icreated' = icreated \cup {"state"}
                /\ IGoto("stateenc")
    /\ UNCHANGED <<provFile, scoreFile, iruns, istart, notInit>>

\* lines 67-73: the empty state encoded, all of it or, on a write error, some
InitStateEncode ==
    /\ ipc = "stateenc"
    /\ \/ stateFile' = File(Overwrite(stateFile.d, Encode(EmptyState))) /\ IGoto("prov")
       \/ \E k \in 0..(Len(Encode(EmptyState)) - 1) :
            /\ stateFile' = File(Overwrite(stateFile.d, SubSeq(Encode(EmptyState), 1, k)))
            /\ IFail("writestate")
    /\ UNCHANGED <<provFile, scoreFile, iruns, istart, icreated, notInit>>

\* lines 78-88, 95-97
InitProvisionersFile ==
    /\ ipc = "prov"
    /\ \/ IFail("statprov") /\ UNCHANGED <<provFile, icreated>>
       \/ /\ provFile.e
          /\ IGoto("score")
          /\ UNCHANGED <<provFile, icreated>>
       \/ /\ ~provFile.e
          /\ \/ IFail("openprov") /\ UNCHANGED <<provFile, icreated>>
             \/ /\ provFile' = File(<<>>)
                /\ icreated' = icreated \cup {"prov"}
                /\ IGoto("provenc")
    /\ UNCHANGED <<stateFile, scoreFile, iruns, istart, notInit>>

\* lines 89-94
InitProvisionersEncode ==
    /\ ipc = "provenc"
    /\ \/ provFile' = File(Overwrite(provFile.d, DefaultProvisionersDoc)) /\ IGoto("score")
       \/ \E k \in 0..(Len(DefaultProvisionersDoc) - 1) :
            /\ provFile' = File(Overwrite(provFile.d, SubSeq(DefaultProvisionersDoc, 1, k)))
            /\ IFail("writeprov")
    /\ UNCHANGED <<stateFile, scoreFile, iruns, istart, icreated, notInit>>

\* lines 99-116, 123-127
InitScoreFile ==
    /\ ipc = "score"
    /\ \/ IFail("statscore") /\ UNCHANGED <<scoreFile, icreated>>
       \/ /\ scoreFile.e
          /\ IDone(stateFile, provFile, scoreFile)
          /\ UNCHANGED <<scoreFile, icreated>>
       \/ /\ ~scoreFile.e
          /\ \/ IFail("openscore") /\ UNCHANGED <<scoreFile, icreated>>
             \/ /\ scoreFile' = File(<<>>)
                /\ icreated' = icreated \cup {"score"}
                /\ IGoto("scoreenc")
    /\ UNCHANGED <<stateFile, provFile, iruns, istart, notInit>>

\* lines 117-127
InitScoreEncode ==
    /\ ipc = "scoreenc"
    /\ \/ /\ scoreFile' = File(Overwrite(scoreFile.d, ExampleWorkloadDoc))
          /\ IDone(stateFile, provFile, scoreFile')
       \/ \E k \in 0..(Len(ExampleWorkloadDoc) - 1) :
            /\ scoreFile' = File(Overwrite(scoreFile.d, SubSeq(ExampleWorkloadDoc, 1, k)))
            /\ IFail("writescore")
    /\ UNCHANGED <<stateFile, provFile, iruns, istart, icreated, notInit>>

\* init is killed; the files stay as they are
InitCrash ==
    /\ ipc \in InitRunning
    /\ ipc' = "crashed"
    /\ UNCHANGED <<iresult, ifirst, stateFile, provFile, scoreFile, iruns, istart, icreated>>
    /\ UNCHANGED notInit

InitIdle ==
    /\ ipc = "idle" /\ iresult = "" /\ iruns = 0
    /\ provFile = Absent /\ scoreFile = Absent
    /\ istart = ManagedFiles(stateFile, provFile, scoreFile)
    /\ ifirst = [n |-> 0, files |-> ManagedFiles(Absent, Absent, Absent)]
    /\ icreated = {}

\* init may find anything in the place of its three files
InitCmdInit ==
    /\ ipc = "idle" /\ iresult = "" /\ iruns = 0
    /\ stateFile \in FoundFiles(Encode(EmptyState))
    /\ provFile \in FoundFiles(DefaultProvisionersDoc)
    /\ scoreFile \in FoundFiles(ExampleWorkloadDoc)
    /\ istart = ManagedFiles(stateFile, provFile, scoreFile)
    /\ ifirst = [n |-> 0, files |-> ManagedFiles(Absent, Absent, Absent)]
    /\ icreated = {}

InitCmdNext ==
    \/ InitStart
    \/ InitMkdir
    \/ InitStateFile
    \/ InitStateEncode
    \/ InitProvisionersFile
    \/ InitProvisionersEncode
    \/ InitScoreFile
    \/ InitScoreEncode
    \/ InitCrash

(***************************************************************************)
(* Properties of init.                                                     *)
(***************************************************************************)
\* C6: init never changes a managed file that was there when the run began, and
\* from the end of the first run that succeeds on, the three files exist and
\* keep the contents they had then, however many runs follow.
C6_InitIdempotent ==
    /\ istart.state.e => stateFile = istart.state
    /\ istart.prov.e => provFile = istart.prov
    /\ istart.score.e => scoreFile = istart.score
    /\ ifirst.n > 0 =>
        /\ ManagedFiles(stateFile, provFile, scoreFile) = ifirst.files
        /\ stateFile.e /\ provFile.e /\ scoreFile.e

\* a second successful run, over a state file init found and a provisioners
\* file init created
C6_Witness ==
    /\ ipc = "done" /\ ifirst.n >= 2
    /\ "prov" \in icreated /\ provFile = File(DefaultProvisionersDoc)
    /\ "state" \notin icreated /\ stateFile = File(<<"custom">>)

(***************************************************************************)
(* The override stage of one input file (src/main.go, lines 159-198).      *)
(* A document is a tree of mappings over scalars; a string, a mapping key  *)
(* included, is a sequence of tokens; sequences inside documents are left  *)
(* out.                                                                    *)
(***************************************************************************)
\* the most --override-property flags on one command line
MaxOverrides == 2

Nil == [kind |-> "nil"]

Missing == [kind |-> "missing"]

IntV(n) == [kind |-> "int", n |-> n]

StrV(t) == [kind |-> "str", s |-> t]

MapV(f) == [kind |-> "map", kids |-> f]

EmptyMap == MapV([k \in {} |-> Nil])

Put(m, k, v) == MapV([x \in (DOMAIN m.kids) \cup {k} |-> IF x = k THEN v ELSE m.kids[x]])

Del(m, k) == MapV([x \in (DOMAIN m.kids) \ {k} |-> m.kids[x]])

RECURSIVE Lookup(_, _)
\* the node at a path of keys, Missing when there is none
Lookup(m, path) ==
    IF path = <<>> THEN m
    ELSE IF m.kind # "map" THEN Missing
    ELSE IF path[1] \notin DOMAIN m.kids THEN Missing
    ELSE Lookup(m.kids[path[1]], Tail(path))

RECURSIVE SplitOn(_, _)
\* strings.Split(s, sep) for a one-token separator
SplitOn(s, sep) ==
    IF IndexOf(s, sep) = 0 THEN <<s>>
    ELSE <<SubSeq(s, 1, IndexOf(s, sep) - 1)>>
         \o SplitOn(SubSeq(s, IndexOf(s, sep) + 1, Len(s)), sep)

\* strings.SplitN(entry, "=", 2)
SplitN2(entry) ==
    IF IndexOf(entry, "=") = 0 THEN <<entry>>
    ELSE <<SubSeq(entry, 1, IndexOf(entry, "=") - 1),
           SubSeq(entry, IndexOf(entry, "=") + 1, Len(entry))>>

\* framework.ParseDotPathParts(path), no escaped dot among the tokens
ParseDotPathParts(path) == SplitOn(path, ".")

Digits == {"5", "7"}

DigitVal(d) == IF d = "5" THEN 5 ELSE 7

RECURSIVE NumVal(_)
NumVal(t) ==
    IF t = <<>> THEN 0 ELSE NumVal(SubSeq(t, 1, Len(t) - 1)) * 10 + DigitVal(t[Len(t)])

\* yaml.Unmarshal([]byte(parts[1]), &value) of a non-empty text: an unclosed
\* flow sequence is an error, digits are a number, anything else a string
ParseYamlValue(t) ==
    IF \E i \in 1..Len(t) : t[i] = "[" THEN [ok |-> FALSE, val |-> Nil]
    ELSE IF \A i \in 1..Len(t) : t[i] \in Digits THEN [ok |-> TRUE, val |-> IntV(NumVal(t))]
    ELSE [ok |-> TRUE, val |-> StrV(t)]

RECURSIVE OverridePathInMap(_, _, _, _)
\* framework.OverridePathInMap(spec, path, isDelete, value)
OverridePathInMap(m, path, isDelete, value) ==
    IF path = <<>> THEN [ok |-> FALSE, val |-> Nil]
    ELSE IF Len(path) = 1
    THEN [ok |-> TRUE, val |-> IF isDelete THEN Del(m, path[1]) ELSE Put(m, path[1], value)]
    ELSE IF path[1] \notin DOMAIN m.kids /\ isDelete THEN [ok |-> TRUE, val |-> m]
    ELSE LET child == IF path[1] \in DOMAIN m.kids THEN m.kids[path[1]] ELSE EmptyMap
         IN IF child.kind # "map" THEN [ok |-> FALSE, val |-> Nil]
            ELSE LET sub == OverridePathInMap(child, Tail(path), isDelete, value)
                 IN IF ~sub.ok THEN [ok |-> FALSE, val |-> Nil]
                    ELSE [ok |-> TRUE, val |-> Put(m, path[1], sub.val)]

RECURSIVE MergeOverride(_, _)
\* mergo.Merge(&spec, out, mergo.WithOverride): a key of the override wins,
\* mappings are merged key by key
MergeOverride(dst, src) ==
    MapV([k \in (DOMAIN dst.kids) \cup (DOMAIN src.kids) |->
            IF k \notin DOMAIN src.kids THEN dst.kids[k]
            ELSE IF k \notin DOMAIN dst.kids THEN src.kids[k]
            ELSE IF dst.kids[k].kind = "map" /\ src.kids[k].kind = "map"
            THEN MergeOverride(dst.kids[k], src.kids[k])
            ELSE src.kids[k]])

PropResult(err, after, op) == [err |-> err, after |-> after, op |-> op]

\* lines 324-348 with an empty value assigned as the empty string
ParseAndApplyOverrideProperty_NoDelete(entry, spec) ==
    LET parts == SplitN2(entry)
    IN IF Len(parts) # 2 THEN PropResult("noequals", Nil, "none")
       ELSE LET v == IF parts[2] = <<>> THEN [ok |-> TRUE, val |-> StrV(<<>>)]
                     ELSE ParseYamlValue(parts[2])
            IN IF ~v.ok THEN PropResult("badvalue", Nil, "none")
               ELSE LET r == OverridePathInMap(spec, ParseDotPathParts(parts[1]),
                                               FALSE, v.val)
                    IN IF ~r.ok THEN PropResult("apply", Nil, "set")
                       ELSE PropResult("", r.val, "set")

\* lines 324-348: parseAndApplyOverrideProperty(entry, flagName, spec)
ParseAndApplyOverrideProperty(entry, spec) ==
    LET parts == SplitN2(entry)
    IN IF Len(parts) # 2 THEN PropResult("noequals", Nil, "none")
       ELSE IF parts[2] = <<>>
       THEN LET r == OverridePathInMap(spec, ParseDotPathParts(parts[1]), TRUE, Nil)
            IN IF ~r.ok THEN PropResult("apply", Nil, "delete")
               ELSE PropResult("", r.val, "delete")
       ELSE LET v == ParseYamlValue(parts[2])
            IN IF ~v.ok THEN PropResult("badvalue", Nil, "none")
               ELSE LET r == OverridePathInMap(spec, ParseDotPathParts(parts[1]),
                                               FALSE, v.val)
                    IN IF ~r.ok THEN PropResult("apply", Nil, "set")
                       ELSE PropResult("", r.val, "set")

Key(t) == <<t>>

\* the input documents: {}, {foo: {bar: 7}}, {foo: 7}, {foo: {bar: 7}, bar: x}
InputDocs ==
    {EmptyMap,
     MapV(Key("foo") :> MapV(Key("bar") :> IntV(7))),
     MapV(Key("foo") :> IntV(7)),
     MapV(Key("foo") :> MapV(Key("bar") :> IntV(7)) @@ Key("bar") :> StrV(<<"x">>))}

NoOverrideFile == [kind |-> "none"]

\* --overrides-file: none, or a file holding {foo: {baz: 5}, bar: 5}
OverrideFileDocs ==
    {NoOverrideFile,
     MapV(Key("foo") :> MapV(Key("baz") :> IntV(5)) @@ Key("bar") :> IntV(5))}

\* foo.bar=   foo.bar=5   foo=x   bar=   foo (no "=")   foo.bar=x=5   foo=[
OverrideEntries ==
    {<<"foo", ".", "bar", "=">>,
     <<"foo", ".", "bar", "=", "5">>,
     <<"foo", "=", "x">>,
     <<"bar", "=">>,
     <<"foo">>,
     <<"foo", ".", "bar", "=", "x", "=", "5">>,
     <<"foo", "=", "[">>}

\* what the override stage leaves alone
notOv == <<genVars, initVars, provVars, cmdVars>>

OFail(tag) == opc' = "error" /\ oresult' = tag

\* lines 168-172: parseAndApplyOverrideFile when --overrides-file is given
OvApplyFile ==
    /\ opc = "file"
    /\ IF ovFileDoc = NoOverrideFile
       THEN opc' = "props" /\ UNCHANGED <<oresult, rawWorkload, fileMerged>>
       ELSE \/ OFail("overridefile") /\ UNCHANGED <<rawWorkload, fileMerged>>
            \/ /\ rawWorkload' = MergeOverride(rawWorkload, ovFileDoc)
               /\ fileMerged' = TRUE
               /\ opc' = "props"
               /\ UNCHANGED oresult
    /\ UNCHANGED <<ovFileDoc, ovEntries, oi, applied, lastOp, notOv>>

\* lines 176-182, one entry of --override-property
OvApplyProperty ==
    /\ opc = "props"
    /\ oi <= Len(ovEntries)
    /\ LET r == ParseAndApplyOverrideProperty(ovEntries[oi], rawWorkload)
       IN /\ rawWorkload' = r.after
          /\ lastOp' = r.op
          /\ IF r.err # "" THEN OFail(r.err) /\ UNCHANGED <<oi, applied>>
             ELSE /\ applied' = Append(applied, ovEntries[oi])
                  /\ oi' = oi + 1
                  /\ UNCHANGED <<opc, oresult>>
    /\ UNCHANGED <<ovFileDoc, ovEntries, fileMerged, notOv>>

\* line 182: the loop over the entries is over
OvPropertiesDone ==
    /\ opc = "props"
    /\ oi > Len(ovEntries)
    /\ opc' = "validate"
    /\ UNCHANGED <<oresult, rawWorkload, ovFileDoc, ovEntries, oi, applied, lastOp>>
    /\ UNCHANGED <<fileMerged, notOv>>

\* lines 184-198: upgrade transforms, schema validation, typed decoding
OvValidate ==
    /\ opc = "validate"
    /\ \/ OFail("validate")
       \/ opc' = "done" /\ UNCHANGED oresult
    /\ UNCHANGED <<rawWorkload, ovFileDoc, ovEntries, oi, applied, lastOp, fileMerged>>
    /\ UNCHANGED notOv

OvIdle ==
    /\ opc = "idle" /\ oresult = "" /\ rawWorkload = EmptyMap
    /\ ovFileDoc = NoOverrideFile /\ ovEntries = <<>> /\ oi = 1
    /\ applied = <<>> /\ lastOp = "none" /\ fileMerged = FALSE

\* after lines 159-164: the input document is read, the flags are known
OvInit ==
    /\ opc = "file" /\ oresult = ""
    /\ rawWorkload \in InputDocs
    /\ ovFileDoc \in OverrideFileDocs
    /\ ovEntries \in SeqsUpTo(OverrideEntries, MaxOverrides)
    /\ oi = 1 /\ applied = <<>> /\ lastOp = "none" /\ fileMerged = FALSE

OvNext ==
    \/ OvApplyFile
    \/ OvApplyProperty
    \/ OvPropertiesDone
    \/ OvValidate

(***************************************************************************)
(* Properties of the override stage.                                       *)
(***************************************************************************)
\* what the entry applied last asks for is true of the document
LastEntryHolds ==
    LET parts == SplitN2(applied[Len(applied)])
        node == Lookup(rawWorkload, SplitOn(parts[1], "."))
    IN /\ Len(parts) = 2
       /\ parts[2] = <<>> => node = Missing
       /\ parts[2] = <<"5">> => node = IntV(5)
       /\ parts[2] = <<"x">> => node = StrV(<<"x">>)
       /\ parts[2] # <<>> => node = ParseYamlValue(parts[2]).val

\* C9: an applied entry PATH= leaves PATH out of the document, an applied entry
\* PATH=VALUE leaves the parsed VALUE at PATH (5 is the number 5); the entries
\* are applied in flag order, after the override file and all of them before
\* validation; an entry without "=" is an error and performs no set or delete.
C9_OverrideProperty ==
    /\ (Len(applied) > 0 /\ opc \in {"props", "validate", "done"}) => LastEntryHolds
    /\ applied = SubSeq(ovEntries, 1, Len(applied))
    /\ opc \in {"props", "validate", "done"} => Len(applied) = oi - 1
    /\ opc \in {"validate", "done"} => applied = ovEntries
    /\ (Len(applied) > 0 /\ ovFileDoc # NoOverrideFile) => fileMerged
    /\ oresult = "noequals" =>
        /\ opc = "error"
        /\ IndexOf(ovEntries[oi], "=") = 0
        /\ lastOp = "none"
        /\ Len(applied) = oi - 1

\* foo.bar=5 and then foo.bar= : the path is set, then deleted, before validation
C9_Witness ==
    /\ opc = "validate"
    /\ applied = << <<"foo", ".", "bar", "=", "5">>, <<"foo", ".", "bar", "=">> >>
    /\ fileMerged
    /\ Lookup(rawWorkload, <<Key("foo"), Key("bar")>>) = Missing
    /\ Lookup(rawWorkload, <<Key("foo"), Key("baz")>>) = IntV(5)

(***************************************************************************)
(* Provisioner.Provision                                                   *)
(* (src/internal/provisioners/cmdprov/commandprov.go).  An argument is a   *)
(* template: a sequence of tokens, each a piece of literal text or one     *)
(* template action.                                                        *)
(***************************************************************************)
\* the most arguments of a descriptor
MaxProvArgs == 2

\* the argument "<mode>"
ModeToken == <<"<mode>">>

\* the string "provision"
ProvisionWord == <<"provision">>

\* <mode>   --flag   {{.Id}}   --id={{.Id}}   {{.Nope}}   <mode>x   provision
ArgTemplates ==
    {ModeToken, <<"--flag">>, <<"{{.Id}}">>, <<"--id=", "{{.Id}}">>, <<"{{.Nope}}">>,
     <<"<mode>", "x">>, ProvisionWord}

\* the resource ids a request may carry
ResourceIds == {"db", "cache"}

RECURSIVE RenderTemplate(_, _)
\* provisioners.RenderTemplate(arg, data): literal text stays, {{.Id}} becomes
\* the resource id, an action naming no field of the data is an error
RenderTemplate(t, data) ==
    IF t = <<>> THEN [ok |-> TRUE, val |-> <<>>]
    ELSE IF t[1] = "{{.Nope}}" THEN [ok |-> FALSE, val |-> <<>>]
    ELSE LET rest == RenderTemplate(Tail(t), data)
         IN IF ~rest.ok THEN rest
            ELSE [ok |-> TRUE,
                  val |-> <<IF t[1] = "{{.Id}}" THEN data.Id ELSE t[1]>> \o rest.val]

\* the exit statuses of the subprocess
ExitStatuses == {0, 1}

\* the fields of provisioners.ProvisionOutput, by their json names
OutputFields == {"resource_outputs", "manifests"}

\* a JSON value on the standard output of the subprocess: text that is no JSON,
\* or an object, its members in order, each a name and whether the value has the
\* type the field of that name takes
NotJson == [json |-> FALSE, members |-> <<>>]

JsonObject(ms) == [json |-> TRUE, members |-> ms]

Member(n, typed) == [name |-> n, typed |-> typed]

OutputValues ==
    {NotJson,
     JsonObject(<<>>),
     JsonObject(<<Member("manifests", TRUE)>>),
     JsonObject(<<Member("resource_outputs", TRUE), Member("manifests", TRUE)>>),
     JsonObject(<<Member("manifests", TRUE), Member("extra", TRUE)>>),
     JsonObject(<<Member("manifests", FALSE)>>)}

\* the most JSON values the subprocess writes
MaxOutputValues == 2

\* what the subprocess may have written when it exits: nothing, one value, one
\* value and more after it
OutputBuffers == SeqsUpTo(OutputValues, MaxOutputValues)

\* a zero provisioners.ProvisionOutput
NoOutput == {}

\* json.NewDecoder(buffer) with DisallowUnknownFields when strict, then
\* Decode(&output): the decoder reads the first JSON value of the buffer and
\* nothing after it; an empty buffer is io.EOF; a member that names no field is
\* an error when strict and skipped otherwise; a member of the wrong type is an
\* error; a field without a member keeps its zero value
DecodeOutput(b, strict) ==
    IF b = <<>> THEN [ok |-> FALSE, val |-> NoOutput]
    ELSE IF ~b[1].json THEN [ok |-> FALSE, val |-> NoOutput]
    ELSE LET ms == b[1].members
         IN IF strict /\ \E i \in 1..Len(ms) : ms[i].name \notin OutputFields
            THEN [ok |-> FALSE, val |-> NoOutput]
            ELSE IF \E i \in 1..Len(ms) : ms[i].name \in OutputFields /\ ~ms[i].typed
            THEN [ok |-> FALSE, val |-> NoOutput]
            ELSE [ok |-> TRUE,
                  val |-> {ms[i].name : i \in {j \in 1..Len(ms) : ms[j].name \in OutputFields}}]

\* the subprocess's exit status, its standard output, the value Provision returns
ioVars == <<exitStatus, outputBuffer, poutput>>

\* the most Provision calls on one descriptor
MaxProvCalls == 2

\* the calls so far, the args list as Parse returned it, and the argument lists
\* the calls rendered, each with the request it was rendered for
callVars == <<pcalls, parsedArgs, renderLog>>

\* what Provision leaves alone
notProv == <<genVars, initVars, ovVars, cmdVars>>

PFail(tag) == ppc' = "error" /\ presult' = tag

\* lines 96-121: the template data, decodeBinary and json.Marshal; the slice of
\* line 123 is a copy of p.Args
ProvisionBegin ==
    /\ ppc = "begin"
    /\ \/ PFail("binary") /\ UNCHANGED largs
       \/ PFail("marshal") /\ UNCHANGED largs
       \/ largs' = pArgs /\ ppc' = "render" /\ UNCHANGED presult
    /\ UNCHANGED <<pArgs, pInput, pi, started, execArgs, ioVars, callVars, notProv>>

\* lines 124-133 with the error of line 129 dropped: an argument that does not
\* render stays as it is and the loop goes on
ProvisionRenderArg_KeepGoing ==
    /\ ppc = "render"
    /\ pi <= Len(largs)
    /\ LET arg == largs[pi]
           rendered == RenderTemplate(arg, [Id |-> pInput])
       IN largs' = [largs EXCEPT ![pi] = IF rendered.ok THEN rendered.val ELSE arg]
    /\ pi' = pi + 1
    /\ UNCHANGED <<ppc, presult>>
    /\ UNCHANGED <<pArgs, pInput, started, execArgs, ioVars, callVars, notProv>>

\* lines 123-133 with args := p.Args in the place of the clone: the loop writes
\* into the descriptor's own list
ProvisionRenderArg_InPlace ==
    /\ ppc = "render"
    /\ pi <= Len(largs)
    /\ LET arg == largs[pi]
           marked == IF arg = ModeToken THEN [largs EXCEPT ![pi] = ProvisionWord]
                     ELSE largs
           rendered == RenderTemplate(arg, [Id |-> pInput])
       IN IF ~rendered.ok
          THEN largs' = marked /\ PFail("template") /\ UNCHANGED pi
          ELSE /\ largs' = [marked EXCEPT ![pi] = rendered.val]
               /\ pi' = pi + 1
               /\ UNCHANGED <<ppc, presult>>
    /\ pArgs' = largs'
    /\ UNCHANGED <<pInput, started, execArgs, ioVars, callVars, notProv>>

\* lines 124-133, one turn of the loop: arg is the element as it was when the
\* turn began
ProvisionRenderArg ==
    /\ ppc = "render"
    /\ pi <= Len(largs)
    /\ LET arg == largs[pi]
           marked == IF arg = ModeToken THEN [largs EXCEPT ![pi] = ProvisionWord]
                     ELSE largs
           rendered == RenderTemplate(arg, [Id |-> pInput])
       IN IF ~rendered.ok
          THEN largs' = marked /\ PFail("template") /\ UNCHANGED pi
          ELSE /\ largs' = [marked EXCEPT ![pi] = rendered.val]
               /\ pi' = pi + 1
               /\ UNCHANGED <<ppc, presult>>
    /\ UNCHANGED <<pArgs, pInput, started, execArgs, ioVars, callVars, notProv>>

\* lines 135-142: the subprocess is started with the rendered arguments; it
\* writes what it writes to its standard output and exits, with status zero or
\* not; cmd.Run returns an error for any other status than zero
ProvisionRun ==
    /\ ppc = "render"
    /\ pi > Len(largs)
    /\ started' = TRUE
    /\ execArgs' = largs
    /\ \E st \in ExitStatuses, b \in OutputBuffers :
        /\ exitStatus' = st
        /\ outputBuffer' = b
        /\ IF st # 0 THEN PFail("exec")
           ELSE ppc' = "decode" /\ UNCHANGED presult
    /\ renderLog' = Append(renderLog, [input |-> pInput, args |-> largs])
    /\ UNCHANGED <<pArgs, pInput, largs, pi, poutput, pcalls, parsedArgs, notProv>>

\* lines 144-152 with the decoder left lenient: an unknown field is skipped
ProvisionDecode_Lenient ==
    /\ ppc = "decode"
    /\ LET r == DecodeOutput(outputBuffer, FALSE)
       IN IF ~r.ok THEN PFail("decode") /\ UNCHANGED poutput
          ELSE ppc' = "done" /\ poutput' = r.val /\ UNCHANGED presult
    /\ UNCHANGED <<pArgs, pInput, largs, pi, started, execArgs, exitStatus, outputBuffer,
                   callVars, notProv>>

\* lines 144-152: the buffered output is decoded, unknown fields disallowed
ProvisionDecode ==
    /\ ppc = "decode"
    /\ LET r == DecodeOutput(outputBuffer, TRUE)
       IN IF ~r.ok THEN PFail("decode") /\ UNCHANGED poutput
          ELSE ppc' = "done" /\ poutput' = r.val /\ UNCHANGED presult
    /\ UNCHANGED <<pArgs, pInput, largs, pi, started, execArgs, exitStatus, outputBuffer,
                   callVars, notProv>>

\* line 96: Provision is called once more on the same descriptor, with a
\* request of its own; the locals of the call before are gone
ProvisionAgain ==
    /\ ppc \in {"done", "error"}
    /\ pcalls < MaxProvCalls
    /\ pcalls' = pcalls + 1
    /\ pInput' \in ResourceIds
    /\ ppc' = "begin" /\ presult' = ""
    /\ largs' = <<>> /\ pi' = 1 /\ started' = FALSE /\ execArgs' = <<>>
    /\ exitStatus' = 0 /\ outputBuffer' = <<>> /\ poutput' = NoOutput
    /\ UNCHANGED <<pArgs, parsedArgs, renderLog, notProv>>

ProvIdle ==
    /\ ppc = "idle" /\ presult = "" /\ pArgs = <<>> /\ pInput = "db"
    /\ pcalls = 1 /\ parsedArgs = <<>> /\ renderLog = <<>>
    /\ largs = <<>> /\ pi = 1 /\ started = FALSE /\ execArgs = <<>>
    /\ exitStatus = 0 /\ outputBuffer = <<>> /\ poutput = NoOutput

\* a descriptor as Parse returns it and a request for it
ProvInit ==
    /\ ppc = "begin" /\ presult = ""
    /\ pArgs \in SeqsUpTo(ArgTemplates, MaxProvArgs)
    /\ pInput \in ResourceIds
    /\ pcalls = 1 /\ parsedArgs = pArgs /\ renderLog = <<>>
    /\ largs = <<>> /\ pi = 1 /\ started = FALSE /\ execArgs = <<>>
    /\ exitStatus = 0 /\ outputBuffer = <<>> /\ poutput = NoOutput

ProvNext ==
    \/ ProvisionBegin
    \/ ProvisionRenderArg
    \/ ProvisionRun
    \/ ProvisionDecode
    \/ ProvisionAgain

(***************************************************************************)
(* Properties of Provision.                                                *)
(***************************************************************************)
\* C10: an argument that is "<mode>" reaches the subprocess as "provision",
\* untouched by the template renderer; every other argument reaches it as the
\* expansion of its own text.
C10_ModeTokenIsProvision ==
    started =>
        /\ Len(execArgs) = Len(pArgs)
        /\ \A i \in 1..Len(pArgs) :
            IF pArgs[i] = ModeToken THEN execArgs[i] = ProvisionWord
            ELSE execArgs[i] = RenderTemplate(pArgs[i], [Id |-> pInput]).val

\* C10, the part that holds: every argument other than "<mode>" reaches the
\* subprocess as the expansion of its own text.
C10_OtherArgsRendered ==
    started =>
        /\ Len(execArgs) = Len(pArgs)
        /\ \A i \in 1..Len(pArgs) :
            pArgs[i] # ModeToken
                => execArgs[i] = RenderTemplate(pArgs[i], [Id |-> pInput]).val

\* the arguments of the descriptor whose template does not expand
FailingArgs == {i \in 1..Len(pArgs) : ~RenderTemplate(pArgs[i], [Id |-> pInput]).ok}

\* C13: when the template of any argument fails to expand, Provision returns an
\* error and no subprocess is started, wherever the failing argument stands.
C13_TemplateFailureNoExec ==
    /\ presult = "template" =>
        /\ ppc = "error" /\ ~started /\ execArgs = <<>>
        /\ FailingArgs # {}
    /\ FailingArgs # {} => ~started /\ ppc \notin {"decode", "done"}

\* the second argument fails after the first was rendered
C13_Witness ==
    /\ ppc = "error" /\ presult = "template" /\ pi = 2
    /\ pArgs[1] = <<"--id=", "{{.Id}}">> /\ largs[1] = <<"--id=", pInput>>

\* the first JSON value of the buffer is an object of the Provision Output
\* shape: every member names a field and has the type of that field
WellShaped(b) ==
    /\ b # <<>>
    /\ b[1].json
    /\ \A i \in 1..Len(b[1].members) :
            b[1].members[i].name \in OutputFields /\ b[1].members[i].typed

\* C14: Provision returns an output only when the subprocess exited with status
\* zero and the buffered output, read after the exit, decodes as a Provision
\* Output with no unknown member; an unknown member beside valid ones is an
\* error; the decode error and the error for another exit status are different
\* errors, the first for status zero only, the second for every other status.
C14_StrictOutput ==
    /\ ppc = "done" =>
        /\ started /\ exitStatus = 0
        /\ WellShaped(outputBuffer)
        /\ poutput = {outputBuffer[1].members[i].name : i \in 1..Len(outputBuffer[1].members)}
    /\ ppc # "done" => poutput = NoOutput
    /\ presult = "decode" => ppc = "error" /\ started /\ exitStatus = 0 /\ ~WellShaped(outputBuffer)
    /\ presult = "exec" => ppc = "error" /\ started /\ exitStatus # 0
    /\ (started /\ exitStatus # 0) => presult = "exec"

\* a response with the field manifests valid and one unknown field beside it
C14_Witness ==
    /\ ppc = "error" /\ presult = "decode" /\ exitStatus = 0
    /\ outputBuffer = <<JsonObject(<<Member("manifests", TRUE), Member("extra", TRUE)>>)>>

\* C20: Provision never modifies the descriptor it is called on: after any
\* number of calls, successful or failed, the descriptor's args list is the list
\* that was parsed, and two calls with equal requests render equal argument
\* lists.
C20_DescriptorArgsUnchanged ==
    /\ pArgs = parsedArgs
    /\ \A i, j \in 1..Len(renderLog) :
            renderLog[i].input = renderLog[j].input
                => renderLog[i].args = renderLog[j].args

\* two calls with the same request, each rendering a template with an action
C20_Witness ==
    /\ pcalls = 2 /\ Len(renderLog) = 2
    /\ renderLog[1].input = renderLog[2].input
    /\ Len(pArgs) > 0 /\ pArgs[1] = <<"--id=", "{{.Id}}">>
    /\ renderLog[2].args[1] = <<"--id=", pInput>>

\* a call that follows a failed one: the list is as parsed all the same
C20_AfterFailure ==
    /\ pcalls = 2 /\ ppc = "done" /\ renderLog # <<>>
    /\ Len(renderLog) = 1

(***************************************************************************)
(* Provisioner.Match (commandprov.go, lines 48-57).  An optional field of  *)
(* the descriptor is a pointer: <<>> is nil, <<v>> points to v.            *)
(***************************************************************************)
ResTypes == {"postgres", "redis"}

ResClasses == {"default", "large"}

\* nil, or a pointer to one of vs
Optional(vs) == {<<>>} \cup {<<v>> : v \in vs}

\* the descriptors as far as Match reads them
MatchDescriptors == [ResType : ResTypes, ResClass : Optional(ResClasses), ResId : Optional(ResourceIds)]

\* framework.ResourceUid: Type(), Class(), Id()
ResourceUids == [Type : ResTypes, Class : ResClasses, Id : ResourceIds]

\* what Match leaves alone
notMatch == <<genVars, initVars, ovVars, provVars, binVars, parseVars, cancelVars>>

MReturn(v) == mpc' = "done" /\ mret' = v

\* lines 49-50
MatchCheckType ==
    /\ mpc = "type"
    /\ IF mUid.Type # mP.ResType THEN MReturn(FALSE)
       ELSE mpc' = "class" /\ UNCHANGED mret
    /\ UNCHANGED <<mP, mUid, notMatch>>

\* line 51 with a nil class read as the class "default"
MatchCheckClass_NilIsDefault ==
    /\ mpc = "class"
    /\ IF mUid.Class # (IF mP.ResClass = <<>> THEN "default" ELSE mP.ResClass[1])
       THEN MReturn(FALSE)
       ELSE mpc' = "id" /\ UNCHANGED mret
    /\ UNCHANGED <<mP, mUid, notMatch>>

\* lines 51-52
MatchCheckClass ==
    /\ mpc = "class"
    /\ IF mP.ResClass # <<>> /\ mUid.Class # mP.ResClass[1] THEN MReturn(FALSE)
       ELSE mpc' = "id" /\ UNCHANGED mret
    /\ UNCHANGED <<mP, mUid, notMatch>>

\* lines 53-56
MatchCheckId ==
    /\ mpc = "id"
    /\ IF mP.ResId # <<>> /\ mUid.Id # mP.ResId[1] THEN MReturn(FALSE)
       ELSE MReturn(TRUE)
    /\ UNCHANGED <<mP, mUid, notMatch>>

MatchIdle ==
    /\ mpc = "idle" /\ mret = FALSE
    /\ mP = [ResType |-> "postgres", ResClass |-> <<>>, ResId |-> <<>>]
    /\ mUid = [Type |-> "postgres", Class |-> "default", Id |-> "db"]

\* Match called on any descriptor with any resource key
MatchInit ==
    /\ mpc = "type" /\ mret = FALSE
    /\ mP \in MatchDescriptors
    /\ mUid \in ResourceUids

MatchNext ==
    \/ MatchCheckType
    \/ MatchCheckClass
    \/ MatchCheckId

(***************************************************************************)
(* Properties of Match.                                                    *)
(***************************************************************************)
\* C12: Match returns true exactly when the types are equal, the class of the
\* descriptor, if it has one, equals the class of the key, and the id of the
\* descriptor, if it has one, equals the id of the key.
C12_MatchIff ==
    mpc = "done" =>
        (mret <=>
            /\ mP.ResType = mUid.Type
            /\ mP.ResClass \in {<<>>, <<mUid.Class>>}
            /\ mP.ResId \in {<<>>, <<mUid.Id>>})

\* a descriptor without a class matches a key of a class that is not the default
C12_Witness ==
    /\ mpc = "done" /\ mret
    /\ mP.ResClass = <<>> /\ mUid.Class = "large"
    /\ mP.ResId = <<"cache">> /\ mUid.Id = "cache"

(***************************************************************************)
(* Strings of the command provisioner: a URI and a file path are sequences *)
(* of tokens; "/", ":", "@" and "?" are tokens of their own, a name is one *)
(* token.                                                                  *)
(***************************************************************************)
\* the last index of t in b, 0 when there is none
LastIndexOf(b, t) ==
    IF \E i \in 1..Len(b) : b[i] = t
    THEN CHOOSE i \in 1..Len(b) : b[i] = t /\ \A j \in (i + 1)..Len(b) : b[j] # t
    ELSE 0

\* s[from..] for a from that may be past the end
From(s, from) == SubSeq(s, from, Len(s))

\* s[..to - 1], the whole of s when to is 0: the text before a separator
Before(s, to) == IF to = 0 THEN s ELSE SubSeq(s, 1, to - 1)

\* the decimal port numbers
PortDigits == {"8080"}

UrlError == [ok |-> FALSE, hasUser |-> FALSE, host |-> <<>>, path |-> <<>>, query |-> <<>>]

\* url.Parse(uri): scheme ":" "//" authority path "?" query.  The query is cut at
\* the first "?", the scheme at the first ":", which has to have a name before
\* it; after "//" the authority runs to the next "/"; user-info is what stands
\* before the last "@" of the authority; a port, after the ":" of the host, is
\* decimal or empty.  Text with no scheme is a path.
UrlParse(uri) ==
    LET q == IndexOf(uri, "?")
        rest == Before(uri, q)
        query == IF q = 0 THEN <<>> ELSE From(uri, q + 1)
        c == IndexOf(rest, ":")
        sl == IndexOf(rest, "/")
        hasScheme == c > 1 /\ (sl = 0 \/ c < sl)
        body == IF hasScheme THEN From(rest, c + 1) ELSE rest
    IN IF c = 1 THEN UrlError
       ELSE IF Len(body) >= 2 /\ body[1] = "/" /\ body[2] = "/"
       THEN LET after == From(body, 3)
                e == IndexOf(after, "/")
                authority == Before(after, e)
                path == IF e = 0 THEN <<>> ELSE From(after, e)
                at == LastIndexOf(authority, "@")
                host == From(authority, at + 1)
                pc1 == IndexOf(host, ":")
                port == IF pc1 = 0 THEN <<>> ELSE From(host, pc1 + 1)
            IN IF \E i \in 1..Len(port) : port[i] \notin PortDigits THEN UrlError
               ELSE [ok |-> TRUE, hasUser |-> at # 0, host |-> host, path |-> path,
                     query |-> query]
       ELSE [ok |-> TRUE, hasUser |-> FALSE, host |-> <<>>, path |-> body, query |-> query]

\* (*URL).Hostname(): the host without its port
Hostname(u) == Before(u.host, IndexOf(u.host, ":"))

\* (*URL).Port(): what stands after the ":" of the host
Port(u) == IF IndexOf(u.host, ":") = 0 THEN <<>> ELSE From(u.host, IndexOf(u.host, ":") + 1)

RECURSIVE JoinWith(_, _)
\* strings.Join(elems, sep)
JoinWith(elems, sep) ==
    IF elems = <<>> THEN <<>>
    ELSE IF Len(elems) = 1 THEN elems[1]
    ELSE elems[1] \o <<sep>> \o JoinWith(Tail(elems), sep)

RECURSIVE CleanComponents(_, _, _)
\* the components of a path taken one by one onto a stack: ".." takes the last
\* one off, stays when the path is relative and nothing is left to take off, and
\* is dropped at the root
CleanComponents(comps, stack, rooted) ==
    IF comps = <<>> THEN stack
    ELSE LET c == comps[1]
         IN IF c = <<".">> THEN CleanComponents(Tail(comps), stack, rooted)
            ELSE IF c = <<"..">>
            THEN IF stack # <<>> /\ stack[Len(stack)] # <<"..">>
                 THEN CleanComponents(Tail(comps), SubSeq(stack, 1, Len(stack) - 1), rooted)
                 ELSE IF rooted THEN CleanComponents(Tail(comps), stack, rooted)
                 ELSE CleanComponents(Tail(comps), Append(stack, c), rooted)
            ELSE CleanComponents(Tail(comps), Append(stack, c), rooted)

\* filepath.Clean(path)
Clean(path) ==
    LET rooted == path # <<>> /\ path[1] = "/"
        comps == SelectSeq(SplitOn(path, "/"), LAMBDA c : c # <<>>)
        kept == JoinWith(CleanComponents(comps, <<>>, rooted), "/")
    IN IF rooted THEN <<"/">> \o kept
       ELSE IF kept = <<>> THEN <<".">> ELSE kept

\* filepath.Join(elems...): empty elements are ignored, the rest is joined with
\* the separator and cleaned; no element left gives the empty string
FilepathJoin(elems) ==
    LET kept == SelectSeq(elems, LAMBDA e : e # <<>>)
    IN IF kept = <<>> THEN <<>> ELSE Clean(JoinWith(kept, "/"))

\* filepath.Dir(path) of a clean absolute path
FilepathDir(path) ==
    LET l == LastIndexOf(path, "/")
    IN IF l <= 1 THEN <<"/">> ELSE SubSeq(path, 1, l - 1)

(***************************************************************************)
(* decodeBinary (commandprov.go, lines 59-94).                             *)
(***************************************************************************)
\* the most path segments of a URI
MaxSegments == 2

\* the hosts that name a directory, and a command name
SpecialHosts == {<<>>, <<"~">>, <<".">>, <<"..">>}

Hosts == SpecialHosts \cup {<<"python">>}

\* the path segments of a URI: names, the empty segment, the parent segment
Segments == {<<"bin">>, <<"x">>, <<>>, <<"..">>}

RECURSIVE PathText(_)
\* the path of a URI as it is written: each segment after a "/"
PathText(segs) == IF segs = <<>> THEN <<>> ELSE <<"/">> \o segs[1] \o PathText(Tail(segs))

\* the URI cmd://host/seg/seg as it is written
UriText(host, segs) == <<"cmd", ":", "/", "/">> \o host \o PathText(segs)

\* os.Getwd(): a clean absolute path
WorkingDirs == {<<"/">>, <<"/", "a">>, <<"/", "a", "/", "b">>}

\* os.UserHomeDir()
HomeDirs == {<<"/", "home">>, <<"/", "a">>}

\* the directory of the search path in which a command is found, <<>> for none
BinDirs == {<<>>, <<"/", "usr", "/", "bin">>, <<"/", "opt">>}

\* exec.LookPath(name): the command in the directory of the search path that
\* holds it
LookPath(name, dir) ==
    IF dir = <<>> THEN [ok |-> FALSE, val |-> <<>>]
    ELSE [ok |-> TRUE, val |-> dir \o <<"/">> \o name]

\* what decodeBinary leaves alone
notBin == <<genVars, initVars, ovVars, provVars, matchVars, parseVars, cancelVars>>

BReturn(path) == bpc' = "done" /\ bret' = path /\ UNCHANGED berr

BFail(tag) == bpc' = "error" /\ berr' = tag /\ UNCHANGED bret

binEnv == <<bUri, bHost, bSegs, bCwd, bHome, bBinDir>>

\* lines 60-61: the error of url.Parse is dropped; a URI that does not parse
\* leaves parts nil and EscapedPath panics
DecodeBinarySplit ==
    /\ bpc = "split"
    /\ LET u == UrlParse(bUri)
       IN IF ~u.ok THEN BFail("panic") /\ UNCHANGED <<bParts, pathParts>>
          ELSE /\ bParts' = u
               /\ pathParts' = SplitOn(u.path, "/")
               /\ bpc' = "switch"
               /\ UNCHANGED <<bret, berr>>
    /\ UNCHANGED <<binEnv, notBin>>

\* lines 63-64
DecodeBinaryRoot ==
    /\ bpc = "switch"
    /\ Hostname(bParts) = <<>>
    /\ BReturn(<<"/">> \o FilepathJoin(pathParts))
    /\ UNCHANGED <<bParts, pathParts, binEnv, notBin>>

\* lines 65-70
DecodeBinaryHome ==
    /\ bpc = "switch"
    /\ Hostname(bParts) = <<"~">>
    /\ \/ BFail("home") /\ UNCHANGED pathParts
       \/ /\ pathParts' = <<bHome>> \o pathParts
          /\ bpc' = "join"
          /\ UNCHANGED <<bret, berr>>
    /\ UNCHANGED <<bParts, binEnv, notBin>>

\* lines 71-76
DecodeBinaryCwd ==
    /\ bpc = "switch"
    /\ Hostname(bParts) = <<".">>
    /\ \/ BFail("getwd") /\ UNCHANGED pathParts
       \/ /\ pathParts' = <<bCwd>> \o pathParts
          /\ bpc' = "join"
          /\ UNCHANGED <<bret, berr>>
    /\ UNCHANGED <<bParts, binEnv, notBin>>

\* lines 77-82 with the working directory itself inserted
DecodeBinaryParent_UsesCwd ==
    /\ bpc = "switch"
    /\ Hostname(bParts) = <<"..">>
    /\ \/ BFail("getwd") /\ UNCHANGED pathParts
       \/ /\ pathParts' = <<bCwd>> \o pathParts
          /\ bpc' = "join"
          /\ UNCHANGED <<bret, berr>>
    /\ UNCHANGED <<bParts, binEnv, notBin>>

\* lines 77-82
DecodeBinaryParent ==
    /\ bpc = "switch"
    /\ Hostname(bParts) = <<"..">>
    /\ \/ BFail("getwd") /\ UNCHANGED pathParts
       \/ /\ pathParts' = <<FilepathDir(bCwd)>> \o pathParts
          /\ bpc' = "join"
          /\ UNCHANGED <<bret, berr>>
    /\ UNCHANGED <<bParts, binEnv, notBin>>

\* lines 83-91 without the test of line 84
DecodeBinaryCommand_AllowsSubpath ==
    /\ bpc = "switch"
    /\ Hostname(bParts) \notin SpecialHosts
    /\ LET b == LookPath(Hostname(bParts), bBinDir)
       IN IF ~b.ok THEN BFail("lookpath") /\ UNCHANGED pathParts
          ELSE /\ pathParts' = <<b.val>> \o pathParts
               /\ bpc' = "join"
               /\ UNCHANGED <<bret, berr>>
    /\ UNCHANGED <<bParts, binEnv, notBin>>

\* lines 83-91
DecodeBinaryCommand ==
    /\ bpc = "switch"
    /\ Hostname(bParts) \notin SpecialHosts
    /\ IF Len(pathParts) > 1 THEN BFail("subpath") /\ UNCHANGED pathParts
       ELSE LET b == LookPath(Hostname(bParts), bBinDir)
            IN IF ~b.ok THEN BFail("lookpath") /\ UNCHANGED pathParts
               ELSE /\ pathParts' = <<b.val>> \o pathParts
                    /\ bpc' = "join"
                    /\ UNCHANGED <<bret, berr>>
    /\ UNCHANGED <<bParts, binEnv, notBin>>

\* line 93
DecodeBinaryJoin ==
    /\ bpc = "join"
    /\ BReturn(FilepathJoin(pathParts))
    /\ UNCHANGED <<bParts, pathParts, binEnv, notBin>>

BinIdle ==
    /\ bpc = "idle" /\ bUri = <<>> /\ bHost = <<>> /\ bSegs = <<>>
    /\ bCwd = <<"/">> /\ bHome = <<"/", "home">> /\ bBinDir = <<>>
    /\ bParts = UrlError /\ pathParts = <<>> /\ bret = <<>> /\ berr = ""

\* decodeBinary called on the URI of a descriptor, in any environment
BinInit ==
    /\ bpc = "split"
    /\ bHost \in Hosts
    /\ bSegs \in SeqsUpTo(Segments, MaxSegments)
    /\ bUri = UriText(bHost, bSegs)
    /\ bCwd \in WorkingDirs /\ bHome \in HomeDirs /\ bBinDir \in BinDirs
    /\ bParts = UrlError /\ pathParts = <<>> /\ bret = <<>> /\ berr = ""

BinNext ==
    \/ DecodeBinarySplit
    \/ DecodeBinaryRoot
    \/ DecodeBinaryHome
    \/ DecodeBinaryCwd
    \/ DecodeBinaryParent
    \/ DecodeBinaryCommand
    \/ DecodeBinaryJoin

(***************************************************************************)
(* Properties of decodeBinary.  They speak of the host and the segments    *)
(* the URI was written from, and of the environment.                       *)
(***************************************************************************)
\* C15: a direct command reference without a path segment resolves to the path
\* the search path gives for the command; with any path segment it is an error
\* and never a path; a command that is not found is an error.
C15_DirectCommand ==
    bHost \notin SpecialHosts =>
        /\ bpc = "done" =>
            /\ bSegs = <<>>
            /\ LookPath(bHost, bBinDir).ok
            /\ bret = LookPath(bHost, bBinDir).val
        /\ bpc = "join" => bSegs = <<>> /\ LookPath(bHost, bBinDir).ok
        /\ (bpc \in {"done", "error"} /\ bSegs # <<>>) => bpc = "error" /\ berr = "subpath"
        /\ (bpc \in {"done", "error"} /\ bSegs = <<>> /\ ~LookPath(bHost, bBinDir).ok)
                => bpc = "error" /\ berr = "lookpath"

\* cmd://python with python found in /opt
C15_Witness ==
    /\ bpc = "done" /\ bUri = <<"cmd", ":", "/", "/", "python">>
    /\ bret = <<"/", "opt", "/", "python">>

\* the names of a directory path, root first
DirNames(dir) == SelectSeq(SplitOn(dir, "/"), LAMBDA c : c # <<>>)

\* the directory a special host stands for, as its names: the root, the home
\* directory, the working directory, the parent of the working directory
BaseNames ==
    IF bHost = <<"~">> THEN DirNames(bHome)
    ELSE IF bHost = <<".">> THEN DirNames(bCwd)
    ELSE IF bHost = <<"..">>
    THEN SubSeq(DirNames(bCwd), 1, Len(DirNames(bCwd)) - 1)
    ELSE <<>>

\* the segments of the URI that are not empty
NamedSegments == SelectSeq(bSegs, LAMBDA c : c # <<>>)

\* the path made of the names of the base directory and then the segments of
\* the URI: the directory is its prefix, the rest depends on the URI alone
JoinedUnderBase == <<"/">> \o JoinWith(BaseNames \o NamedSegments, "/")

HasParentSegment == \E i \in 1..Len(bSegs) : bSegs[i] = <<"..">>

\* C16 as stated: for every URI with host ".", "..", "~" or no host the result
\* lies under the directory of the host: the names of that directory are the
\* first names of the result.
C16_JoinedUnderDirectory ==
    (bpc = "done" /\ bHost \in SpecialHosts) => IsPrefix(BaseNames, DirNames(bret))

\* C16, amended: for every URI with host ".", "..", "~" or no host whose path has
\* no ".." segment, the result is the segments of the URI joined under the
\* working directory, its parent, the home directory or the root, that
\* directory being the prefix and the rest depending on the URI alone; the call
\* fails only when the directory cannot be found out.
C16_JoinedUnderDirectory_NoParentSegment ==
    bHost \in SpecialHosts =>
        /\ (bpc = "done" /\ ~HasParentSegment) => bret = JoinedUnderBase
        /\ bpc = "error" => berr \in {"home", "getwd"} /\ bHost # <<>>

\* cmd://../bin/x in /a/b
C16_Witness ==
    /\ bpc = "done" /\ bHost = <<"..">> /\ bSegs = << <<"bin">>, <<"x">> >>
    /\ bCwd = <<"/", "a", "/", "b">>
    /\ bret = <<"/", "a", "/", "bin", "/", "x">>

(***************************************************************************)
(* Parse (commandprov.go, lines 155-181).  The source document is a        *)
(* mapping from keys to strings; a key that is not in the mapping is not   *)
(* in its domain.                                                          *)
(***************************************************************************)
\* the yaml names of the fields of Provisioner (lines 37-41)
DescriptorKeys == {"uri", "type", "class", "id", "args"}

\* what a uri is written from: user-info or none, the port after the host
\* (none, a ":" with nothing after it, a number, a name), the query (none, a "?"
\* with nothing after it, one parameter)
UriShapes ==
    [user : BOOLEAN, port : {"none", "empty", "8080", "http"},
     query : {"none", "empty", "k=v"}]

\* the uri cmd://[user@]python[:port][?query] as it is written
ShapedUriText(sh) ==
    <<"cmd", ":", "/", "/">>
    \o (IF sh.user THEN <<"user", "@">> ELSE <<>>)
    \o <<"python">>
    \o (IF sh.port = "none" THEN <<>>
        ELSE IF sh.port = "empty" THEN <<":">> ELSE <<":", sh.port>>)
    \o (IF sh.query = "none" THEN <<>>
        ELSE IF sh.query = "empty" THEN <<"?">> ELSE <<"?", sh.query>>)

\* the source documents: uri absent, empty or written from a shape; type
\* absent, empty or a name; a key that is no field of the descriptor or none
RawDocuments(sh) ==
    {d \in UNION {[ks -> {<<>>, <<"postgres">>, ShapedUriText(sh)}] :
                    ks \in SUBSET {"uri", "type", "bogus"}} :
        /\ "uri" \in DOMAIN d => d["uri"] \in {<<>>, ShapedUriText(sh)}
        /\ "type" \in DOMAIN d => d["type"] \in {<<>>, <<"postgres">>}
        /\ "bogus" \in DOMAIN d => d["bogus"] = <<"postgres">>}

\* new(Provisioner): every field the zero value
ZeroProvisioner == [ProvisionerUri |-> <<>>, ResType |-> <<>>]

\* url.Values of a raw query: the parameters with a key
QueryParams(q) == {i \in 1..Len(q) : q[i] # "&"}

\* what Parse leaves alone
notParse == <<genVars, initVars, ovVars, provVars, matchVars, binVars, cancelVars>>

KFail(tag) == kpc' = "error" /\ kerr' = tag /\ kret' = <<>>

\* lines 156-162 without KnownFields(true): a key that is no field is skipped
ParseDecode_Lenient ==
    /\ kpc = "decode"
    /\ kp' = [ProvisionerUri |-> IF "uri" \in DOMAIN raw THEN raw["uri"] ELSE <<>>,
               ResType |-> IF "type" \in DOMAIN raw THEN raw["type"] ELSE <<>>]
    /\ kpc' = "required"
    /\ UNCHANGED <<kret, kerr>>
    /\ UNCHANGED <<raw, rawUri, notParse>>

\* lines 156-162: the document is decoded into the descriptor, a key that is no
\* field of it is an error
ParseDecode ==
    /\ kpc = "decode"
    /\ IF \E k \in DOMAIN raw : k \notin DescriptorKeys
       THEN KFail("unknownfield") /\ UNCHANGED kp
       ELSE /\ kp' = [ProvisionerUri |-> IF "uri" \in DOMAIN raw THEN raw["uri"] ELSE <<>>,
                      ResType |-> IF "type" \in DOMAIN raw THEN raw["type"] ELSE <<>>]
            /\ kpc' = "required"
            /\ UNCHANGED <<kret, kerr>>
    /\ UNCHANGED <<raw, rawUri, notParse>>

\* lines 163-167
ParseRequired ==
    /\ kpc = "required"
    /\ IF kp.ProvisionerUri = <<>> THEN KFail("uri")
       ELSE IF kp.ResType = <<>> THEN KFail("type")
       ELSE kpc' = "url" /\ UNCHANGED <<kret, kerr>>
    /\ UNCHANGED <<raw, rawUri, kp, notParse>>

\* lines 169-180
ParseUrl ==
    /\ kpc = "url"
    /\ LET u == UrlParse(kp.ProvisionerUri)
       IN IF ~u.ok THEN KFail("url")
          ELSE IF u.hasUser THEN KFail("userinfo")
          ELSE IF QueryParams(u.query) # {} THEN KFail("query")
          ELSE IF Port(u) # <<>> THEN KFail("port")
          ELSE kpc' = "done" /\ kret' = <<kp>> /\ UNCHANGED kerr
    /\ UNCHANGED <<raw, rawUri, kp, notParse>>

ParseIdle ==
    /\ kpc = "idle" /\ raw = <<>> /\ rawUri = [user |-> FALSE, port |-> "none", query |-> "none"]
    /\ kp = ZeroProvisioner /\ kret = <<>> /\ kerr = ""

\* Parse called on any source document
ParseInit ==
    /\ kpc = "decode"
    /\ rawUri \in UriShapes
    /\ raw \in RawDocuments(rawUri)
    /\ kp = ZeroProvisioner /\ kret = <<>> /\ kerr = ""

ParseNext ==
    \/ ParseDecode
    \/ ParseRequired
    \/ ParseUrl

(***************************************************************************)
(* Properties of Parse.                                                    *)
(***************************************************************************)
\* the document is one Parse may accept: no key that is no field, uri and type
\* there and not empty, the uri written without user-info, without a query
\* parameter, without a port
Acceptable ==
    /\ DOMAIN raw \subseteq DescriptorKeys
    /\ "uri" \in DOMAIN raw /\ raw["uri"] # <<>>
    /\ "type" \in DOMAIN raw /\ raw["type"] # <<>>
    /\ ~rawUri.user
    /\ rawUri.query # "k=v"
    /\ rawUri.port \in {"none", "empty"}

\* C17: Parse returns a descriptor only for a document with no unknown field,
\* uri and type not empty, and a uri without user-info, query parameters and
\* port; for every other document it returns an error and no descriptor.
C17_ParseStrict ==
    /\ kpc = "done" =>
        /\ Acceptable
        /\ kret = <<[ProvisionerUri |-> raw["uri"], ResType |-> raw["type"]]>>
    /\ kpc # "done" => kret = <<>>
    /\ (kpc \in {"done", "error"} /\ ~Acceptable) => kpc = "error" /\ kerr # ""
    /\ (kpc \in {"done", "error"} /\ Acceptable) => kpc = "done"

\* a document with uri and type set and a port in the uri
C17_Witness ==
    /\ kpc = "error" /\ kerr = "port"
    /\ DOMAIN raw = {"uri", "type"}
    /\ raw["uri"] = <<"cmd", ":", "/", "/", "python", ":", "8080">>

(***************************************************************************)
(* The state file over a sequence of generate runs.                        *)
(***************************************************************************)
\* C19: after any sequence of generate runs, completed or crashed, once a run
\* has renamed its temporary file in place the state file is exactly the
\* encoding of that run's state, and it loads as a valid state.
C19_StateFileIsCanonical ==
    renamed =>
        /\ stateFile = File(written)
        /\ Decode(stateFile.d).ok

(***************************************************************************)
(* Cancellation of a provisioning call: generate (main.go, line 233) hands *)
(* a context to ProvisionResources, which hands it to Provision            *)
(* (commandprov.go, line 96), which starts the subprocess with             *)
(* exec.CommandContext (line 135) and waits in cmd.Run (line 140).         *)
(***************************************************************************)
\* the most Provision calls of one provisioning pass
MaxCalls == 3

\* who calls Provision: generate, with the context of main.go line 233, or a
\* caller that holds a context it can cancel
Callers == {"generate", "direct"}

\* context.Background() is never cancelled: it has no Done channel to close
Cancellable(c) == c # "generate"

\* what a provisioning call leaves alone
notCancel == <<genVars, initVars, ovVars, provVars, matchVars, binVars, parseVars>>

\* lines 135-140: cmd.Run starts the subprocess; a context that is done already
\* does not start it and Run returns the context's error
ProvisionStart ==
    /\ cpc = "begin"
    /\ IF ctxDone THEN cpc' = "error" /\ UNCHANGED subproc
       ELSE cpc' = "running" /\ subproc' = "running"
    /\ UNCHANGED <<caller, ctxDone, cancelAsked, cancelAt, ccalls, notCancel>>

\* the subprocess comes to its end on its own, with status zero or not
SubprocessExits ==
    /\ subproc = "running"
    /\ subproc' \in {"exited0", "exited1"}
    /\ UNCHANGED <<caller, ctxDone, cancelAsked, cancelAt, cpc, ccalls, notCancel>>

\* the run is cancelled: the caller cancels the context it holds; generate holds
\* context.Background() (main.go line 233), on which cancelling has no effect
CancelRun ==
    /\ ~cancelAsked
    /\ cpc \in {"begin", "running"}
    /\ cancelAsked' = TRUE
    /\ cancelAt' = <<ccalls, cpc>>
    /\ ctxDone' = Cancellable(caller)
    /\ UNCHANGED <<caller, subproc, cpc, ccalls, notCancel>>

\* exec.CommandContext: when the context is done the subprocess is killed
ContextKills ==
    /\ ctxDone
    /\ subproc = "running"
    /\ subproc' = "killed"
    /\ UNCHANGED <<caller, ctxDone, cancelAsked, cancelAt, cpc, ccalls, notCancel>>

\* lines 140-152: cmd.Run returns once the subprocess is gone, with an error
\* unless it exited with status zero
ProvisionReturns ==
    /\ cpc = "running"
    /\ subproc \in {"exited0", "exited1", "killed"}
    /\ cpc' = IF subproc = "exited0" THEN "done" ELSE "error"
    /\ UNCHANGED <<caller, ctxDone, cancelAsked, cancelAt, subproc, ccalls, notCancel>>

\* the pass goes on to its next resource after a call that succeeded
ProvisionNextCall ==
    /\ cpc = "done"
    /\ ccalls < MaxCalls
    /\ ccalls' = ccalls + 1
    /\ cpc' = "begin"
    /\ subproc' = "none"
    /\ UNCHANGED <<caller, ctxDone, cancelAsked, cancelAt, notCancel>>

CancelIdle ==
    /\ caller = "generate" /\ ctxDone = FALSE /\ cancelAsked = FALSE /\ cancelAt = <<>>
    /\ subproc = "none" /\ cpc = "idle" /\ ccalls = 1

CancelInit ==
    /\ caller \in Callers
    /\ ctxDone = FALSE /\ cancelAsked = FALSE /\ cancelAt = <<>>
    /\ subproc = "none" /\ cpc = "begin" /\ ccalls = 1

CancelNext ==
    \/ ProvisionStart
    \/ SubprocessExits
    \/ CancelRun
    \/ ContextKills
    \/ ProvisionReturns
    \/ ProvisionNextCall

\* the Go runtime runs the goroutine that watches the context and lets Run
\* return; nothing makes a subprocess end or a caller cancel
CancelFairness ==
    /\ WF_vars(ProvisionStart)
    /\ WF_vars(ContextKills)
    /\ WF_vars(ProvisionReturns)

(***************************************************************************)
(* Properties of cancellation.                                             *)
(***************************************************************************)
\* C18: when the run is cancelled while a provisioner subprocess is running, the
\* subprocess is terminated and Provision returns, instead of blocking until
\* the subprocess ends on its own.
C18_CancelTerminatesProvisioner ==
    (cancelAsked /\ cpc = "running") ~> (cpc \in {"done", "error"} /\ subproc # "running")

\* C18, the part that holds: when the context Provision was given is done while
\* the subprocess is running, the subprocess does not stay running and Provision
\* returns; a killed subprocess makes Provision return an error.
C18_DoneContextTerminates ==
    /\ (ctxDone /\ cpc = "running") ~> (cpc \in {"done", "error"} /\ subproc # "running")
    /\ []((subproc = "killed" /\ cpc \in {"done", "error"}) => cpc = "error")

(***************************************************************************)
(* The specifications: one per command, the others at rest.                *)
(***************************************************************************)
\* the other functions of the command provisioner, not called
CmdIdle == MatchIdle /\ BinIdle /\ ParseIdle /\ CancelIdle

Init == GenInit /\ InitIdle /\ OvIdle /\ ProvIdle /\ CmdIdle

Next == GenNext

\* generate, run after run
Spec == Init /\ [][Next]_vars

InitOfInit == InitCmdInit /\ GenRest /\ OvIdle /\ ProvIdle /\ CmdIdle

\* init, run after run
SpecInit == InitOfInit /\ [][InitCmdNext]_vars

InitOfOverride == OvInit /\ GenIdle /\ InitIdle /\ ProvIdle /\ CmdIdle

\* the override stage of one input file
SpecOverride == InitOfOverride /\ [][OvNext]_vars

InitOfProvision == ProvInit /\ GenIdle /\ InitIdle /\ OvIdle /\ CmdIdle

\* one call of Provision
SpecProvision == InitOfProvision /\ [][ProvNext]_vars

InitOfMatch == MatchInit /\ GenIdle /\ InitIdle /\ OvIdle /\ ProvIdle /\ BinIdle /\ ParseIdle /\ CancelIdle

\* one call of Match
SpecMatch == InitOfMatch /\ [][MatchNext]_vars

InitOfBin == BinInit /\ GenIdle /\ InitIdle /\ OvIdle /\ ProvIdle /\ MatchIdle /\ ParseIdle /\ CancelIdle

\* one call of decodeBinary
SpecBin == InitOfBin /\ [][BinNext]_vars

InitOfParse == ParseInit /\ GenIdle /\ InitIdle /\ OvIdle /\ ProvIdle /\ MatchIdle /\ BinIdle /\ CancelIdle

\* one call of Parse
SpecParse == InitOfParse /\ [][ParseNext]_vars

InitOfCancel ==
    CancelInit /\ GenIdle /\ InitIdle /\ OvIdle /\ ProvIdle /\ MatchIdle /\ BinIdle /\ ParseIdle

\* the Provision calls of one pass, the run cancelled at any moment or never
SpecCancel == InitOfCancel /\ [][CancelNext]_vars /\ CancelFairness

====
